---- MODULE Spec2Model ----
(***************************************************************************)
(* State-machine model of the stableswap 3pool contract                    *)
(* (contracts/liquidity_hub/pool-network/stableswap_3pool): the execute    *)
(* handlers of commands.rs and the queries of queries.rs, over the fee     *)
(* ledgers, the configuration and the balances the querier reports.        *)
(* Amounts are scaled down so that every intermediate product of the       *)
(* invariant solver stays inside TLC's integers.                           *)
(***************************************************************************)
EXTENDS Integers, Sequences, FiniteSets, TLC

VARIABLES balance, total_share, COLLECTED_PROTOCOL_FEES,
          ALL_TIME_COLLECTED_PROTOCOL_FEES, ALL_TIME_BURNED_FEES, CONFIG,
          last, budget

vars == <<balance, total_share, COLLECTED_PROTOCOL_FEES,
          ALL_TIME_COLLECTED_PROTOCOL_FEES, ALL_TIME_BURNED_FEES, CONFIG,
          last, budget>>

store == <<COLLECTED_PROTOCOL_FEES, ALL_TIME_COLLECTED_PROTOCOL_FEES,
           ALL_TIME_BURNED_FEES, CONFIG>>

----------------------------------------------------------------------------
(* Bounds of the model *)

\* committed invocations explored from a freshly instantiated pool
MaxOps == 3
\* committed invocations explored from an arbitrary storage/querier state
MaxOpsAny == 1
\* deposits are multiples of DepositUnit, up to MaxDeposit units per asset
MaxDeposit == 2
DepositUnit == 30
\* offer / ask amounts of swaps and simulations are multiples of OfferUnit
MaxOffer == 2
OfferUnit == 12
\* a contract balance never grows beyond this (keeps the solver's products small)
MaxBalance == 100
\* scale of the fixed-point Decimal (10^18 in cosmwasm_std)
DECIMAL_FRACTIONAL == 100
\* Uint128::MAX, scaled: the largest amount a ledger entry can hold
Uint128Max == 255

----------------------------------------------------------------------------
(* Instantiation data (tests/swap.rs instantiate messages, scaled) *)

AssetInfos == <<"uusd", "asset0000", "asset0001">>
PoolIdx == 1..3
LiquidityToken == "liquidity0000"
ContractAddr == "cosmos2contract"
N_COINS == 3
MINIMUM_LIQUIDITY_AMOUNT == 2

is_native_token(info) == info \in {"uusd", "invalid_token"}

\* PoolFee: the three shares as Decimal atomics (share = n / DECIMAL_FRACTIONAL)
InitPoolFees == [protocol_fee |-> 10, swap_fee |-> 20, burn_fee |-> 30]
InitAmp == 5
InitConfig == [owner |-> "addr0000",
               fee_collector_addr |-> "collector",
               pool_fees |-> InitPoolFees,
               feature_toggle |-> [withdrawals_enabled |-> TRUE,
                                   deposits_enabled |-> TRUE,
                                   swaps_enabled |-> TRUE],
               amp_factor |-> InitAmp]

ZeroLedger == <<[info |-> AssetInfos[1], amount |-> 0],
               [info |-> AssetInfos[2], amount |-> 0],
               [info |-> AssetInfos[3], amount |-> 0]>>

----------------------------------------------------------------------------
(* Results *)

Ok(v) == [ok |-> TRUE, v |-> v, err |-> "Ok"]
Err(e) == [ok |-> FALSE, v |-> 0, err |-> e]

Abs(x) == IF x < 0 THEN -x ELSE x

\* Uint128::checked_sub
checked_sub(a, b) == IF b > a THEN Err("OverflowError") ELSE Ok(a - b)

\* Uint128 * Decimal, rounded down
mul_decimal(amount, dec) == (amount * dec) \div DECIMAL_FRACTIONAL

\* Decimal::from_ratio, rounded down to the Decimal's precision
from_ratio(a, b) == (a * DECIMAL_FRACTIONAL) \div b

----------------------------------------------------------------------------
(* InvariantSolver (stableswap_math::curve::StableSwap) *)

ITERATIONS == 255

\* amp * N^N
ann(amp) == amp * N_COINS * N_COINS * N_COINS

\* D_P = D^(N+1) / (N^N * prod x_i), accumulated one reserve at a time
compute_d_prod(d, xs) ==
    LET p1 == (d * d) \div (xs[1] * N_COINS)
        p2 == (p1 * d) \div (xs[2] * N_COINS)
    IN  (p2 * d) \div (xs[3] * N_COINS)

\* mutant: the denominator keeps amp N^N D instead of (amp N^N - 1) D
compute_next_d_without_minus_one(amp, d, d_prod, sum_x) ==
    LET numerator == (ann(amp) * sum_x + N_COINS * d_prod) * d
        denominator == ann(amp) * d + (N_COINS + 1) * d_prod
    IN  IF ann(amp) < 1 \/ denominator = 0 THEN Err("OverflowError")
        ELSE Ok(numerator \div denominator)

\* D <- (amp N^N sum + N D_P) D / ((amp N^N - 1) D + (N+1) D_P)
compute_next_d(amp, d, d_prod, sum_x) ==
    LET numerator == (ann(amp) * sum_x + N_COINS * d_prod) * d
        denominator == (ann(amp) - 1) * d + (N_COINS + 1) * d_prod
    IN  IF ann(amp) < 1 \/ denominator = 0 THEN Err("OverflowError")
        ELSE Ok(numerator \div denominator)

\* one pass of the loop, on s = [d, k, done, r]: r is the result once the loop
\* has ended, by convergence, by an error or by running out of iterations
compute_d_pass(amp, xs, s) ==
    IF s.done THEN s
    ELSE IF s.k >= ITERATIONS
    THEN [s EXCEPT !.done = TRUE, !.r = Err("ConvergenceFailure")]
    ELSE LET nxt == compute_next_d(amp, s.d, compute_d_prod(s.d, xs), xs[1] + xs[2] + xs[3])
         IN  IF ~nxt.ok THEN [s EXCEPT !.done = TRUE, !.r = nxt]
             ELSE IF Abs(nxt.v - s.d) <= 1 THEN [s EXCEPT !.done = TRUE, !.r = Ok(nxt.v)]
             ELSE [s EXCEPT !.d = nxt.v, !.k = s.k + 1]

\* n passes in a row, split in halves to keep the evaluation shallow
RECURSIVE compute_d_passes(_, _, _, _)
compute_d_passes(amp, xs, s, n) ==
    IF n = 1 THEN compute_d_pass(amp, xs, s)
    ELSE LET half == compute_d_passes(amp, xs, s, n \div 2)
         IN  IF half.done THEN half
             ELSE compute_d_passes(amp, xs, half, n - (n \div 2))

\* the loop from iteration k on: at most ITERATIONS - k updates of d
compute_d_loop(amp, xs, d, k) ==
    compute_d_passes(amp, xs,
                     [d |-> d, k |-> k, done |-> FALSE, r |-> Err("ConvergenceFailure")],
                     ITERATIONS - k + 1).r

\* compute_d(reserves, amp): Newton iteration from D0 = sum of the reserves
compute_d(xs, amp) ==
    IF xs[1] = 0 \/ xs[2] = 0 \/ xs[3] = 0 THEN Err("OverflowError")
    ELSE compute_d_loop(amp, xs, xs[1] + xs[2] + xs[3], 0)

RECURSIVE compute_y_loop(_, _, _, _, _)
compute_y_loop(b, c, d, y, k) ==
    IF k >= ITERATIONS THEN Err("ConvergenceFailure")
    ELSE IF 2 * y + b <= d THEN Err("OverflowError")
    ELSE LET nxt == (y * y + c) \div (2 * y + b - d)
         IN  IF Abs(nxt - y) <= 1 THEN Ok(nxt)
             ELSE compute_y_loop(b, c, d, nxt, k + 1)

\* compute_new_reserve: the reserve that keeps D given the two other reserves
compute_new_reserve(x, z, d, amp) ==
    IF x = 0 \/ z = 0 \/ ann(amp) < 1 THEN Err("OverflowError")
    ELSE LET c1 == (d * d) \div (x * N_COINS)
             c2 == (c1 * d) \div (z * N_COINS)
             c  == (c2 * d) \div (ann(amp) * N_COINS)
             b  == x + z + (d \div ann(amp))
         IN  compute_y_loop(b, c, d, d, 0)

\* mutant: the -1 is a checked subtraction that fails below zero
swap_to_checked(offer_pool, ask_pool, unswapped_pool, offer_amount, amp) ==
    LET d == compute_d(<<offer_pool, ask_pool, unswapped_pool>>, amp)
    IN  IF ~d.ok THEN d
        ELSE LET y == compute_new_reserve(offer_pool + offer_amount, unswapped_pool, d.v, amp)
             IN  IF ~y.ok THEN y
                 ELSE checked_sub(ask_pool, y.v + 1)

\* gross ask amount: old_ask_reserve - new_ask_reserve - 1, floored at zero
swap_to(offer_pool, ask_pool, unswapped_pool, offer_amount, amp) ==
    LET d == compute_d(<<offer_pool, ask_pool, unswapped_pool>>, amp)
    IN  IF ~d.ok THEN d
        ELSE LET y == compute_new_reserve(offer_pool + offer_amount, unswapped_pool, d.v, amp)
             IN  IF ~y.ok THEN y
                 ELSE IF y.v + 1 > ask_pool THEN Ok(0)
                 ELSE Ok(ask_pool - y.v - 1)

----------------------------------------------------------------------------
(* FeeEngine (helpers::compute_swap, helpers::compute_offer_amount) *)

\* Fee::compute: amount * share, rounded down
fee_compute(share, amount) == mul_decimal(amount, share)

\* mutant: the burn fee is computed but not taken out of the return amount
apply_fees_keeping_burn_fee(gross, pool_fees, spread_amount) ==
    LET protocol_fee_amount == fee_compute(pool_fees.protocol_fee, gross)
        swap_fee_amount == fee_compute(pool_fees.swap_fee, gross)
        burn_fee_amount == fee_compute(pool_fees.burn_fee, gross)
        r1 == checked_sub(gross, swap_fee_amount)
        r2 == IF r1.ok THEN checked_sub(r1.v, protocol_fee_amount) ELSE r1
    IN  IF ~r2.ok THEN r2
        ELSE Ok([return_amount |-> r2.v,
                 spread_amount |-> spread_amount,
                 swap_fee_amount |-> swap_fee_amount,
                 protocol_fee_amount |-> protocol_fee_amount,
                 burn_fee_amount |-> burn_fee_amount,
                 gross |-> gross])

\* split of the gross output into the SwapComputation
apply_fees(gross, pool_fees, spread_amount) ==
    LET protocol_fee_amount == fee_compute(pool_fees.protocol_fee, gross)
        swap_fee_amount == fee_compute(pool_fees.swap_fee, gross)
        burn_fee_amount == fee_compute(pool_fees.burn_fee, gross)
        r1 == checked_sub(gross, swap_fee_amount)
        r2 == IF r1.ok THEN checked_sub(r1.v, protocol_fee_amount) ELSE r1
        r3 == IF r2.ok THEN checked_sub(r2.v, burn_fee_amount) ELSE r2
    IN  IF ~r3.ok THEN r3
        ELSE Ok([return_amount |-> r3.v,
                 spread_amount |-> spread_amount,
                 swap_fee_amount |-> swap_fee_amount,
                 protocol_fee_amount |-> protocol_fee_amount,
                 burn_fee_amount |-> burn_fee_amount,
                 gross |-> gross])

\* offer_amount * (ask_pool / offer_pool) - gross, clamped at zero
compute_spread(offer_pool, ask_pool, offer_amount, gross) ==
    LET ideal == mul_decimal(offer_amount, from_ratio(ask_pool, offer_pool))
    IN  IF ideal > gross THEN ideal - gross ELSE 0

compute_swap(offer_pool, ask_pool, unswapped_pool, offer_amount, pool_fees, amp) ==
    LET g == swap_to(offer_pool, ask_pool, unswapped_pool, offer_amount, amp)
    IN  IF ~g.ok THEN g
        ELSE apply_fees(g.v, pool_fees,
                        compute_spread(offer_pool, ask_pool, offer_amount, g.v))

\* mutant: the fees of the reverse quote are taken on the net ask amount
compute_offer_amount_fees_on_net(offer_pool, ask_pool, unswapped_pool, ask_amount, pool_fees, amp) ==
    LET total == pool_fees.protocol_fee + pool_fees.swap_fee + pool_fees.burn_fee
    IN  IF total >= DECIMAL_FRACTIONAL THEN Err("OverflowError")
        ELSE
        LET inv_one_minus_commission ==
                (DECIMAL_FRACTIONAL * DECIMAL_FRACTIONAL) \div (DECIMAL_FRACTIONAL - total)
            before_commission_deduction == mul_decimal(ask_amount, inv_one_minus_commission)
            d == compute_d(<<offer_pool, ask_pool, unswapped_pool>>, amp)
            new_ask == checked_sub(ask_pool, before_commission_deduction)
        IN  IF ~d.ok THEN d
            ELSE IF ~new_ask.ok THEN new_ask
            ELSE LET y == compute_new_reserve(new_ask.v, unswapped_pool, d.v, amp)
                 IN  IF ~y.ok THEN y
                     ELSE LET offer_amount == IF y.v + 1 > offer_pool
                                              THEN y.v + 1 - offer_pool ELSE 0
                              ideal == mul_decimal(offer_amount, from_ratio(ask_pool, offer_pool))
                          IN  Ok([offer_amount |-> offer_amount,
                                  spread_amount |-> IF ideal > before_commission_deduction
                                                    THEN ideal - before_commission_deduction ELSE 0,
                                  swap_fee_amount |-> fee_compute(pool_fees.swap_fee, ask_amount),
                                  protocol_fee_amount |-> fee_compute(pool_fees.protocol_fee, ask_amount),
                                  burn_fee_amount |-> fee_compute(pool_fees.burn_fee, ask_amount)])

\* reverse quote: the offer needed so that ask_amount is returned after fees
compute_offer_amount(offer_pool, ask_pool, unswapped_pool, ask_amount, pool_fees, amp) ==
    LET total == pool_fees.protocol_fee + pool_fees.swap_fee + pool_fees.burn_fee
    IN  IF total >= DECIMAL_FRACTIONAL THEN Err("OverflowError")
        ELSE
        LET inv_one_minus_commission ==
                (DECIMAL_FRACTIONAL * DECIMAL_FRACTIONAL) \div (DECIMAL_FRACTIONAL - total)
            before_commission_deduction == mul_decimal(ask_amount, inv_one_minus_commission)
            d == compute_d(<<offer_pool, ask_pool, unswapped_pool>>, amp)
            new_ask == checked_sub(ask_pool, before_commission_deduction)
        IN  IF ~d.ok THEN d
            ELSE IF ~new_ask.ok THEN new_ask
            ELSE LET y == compute_new_reserve(new_ask.v, unswapped_pool, d.v, amp)
                 IN  IF ~y.ok THEN y
                     ELSE LET offer_amount == IF y.v + 1 > offer_pool
                                              THEN y.v + 1 - offer_pool ELSE 0
                              ideal == mul_decimal(offer_amount, from_ratio(ask_pool, offer_pool))
                          IN  Ok([offer_amount |-> offer_amount,
                                  spread_amount |-> IF ideal > before_commission_deduction
                                                    THEN ideal - before_commission_deduction ELSE 0,
                                  swap_fee_amount |-> fee_compute(pool_fees.swap_fee, before_commission_deduction),
                                  protocol_fee_amount |-> fee_compute(pool_fees.protocol_fee, before_commission_deduction),
                                  burn_fee_amount |-> fee_compute(pool_fees.burn_fee, before_commission_deduction)])


----------------------------------------------------------------------------
(* Storage and querier helpers *)

None == "None"
\* Option<Decimal>::None and Option<u64>::None
NoDecimal == 0 - 1
NoAmp == 0 - 1
\* Option<PoolFee>::None and Option<FeatureToggle>::None
NoPoolFee == [protocol_fee |-> NoDecimal, swap_fee |-> NoDecimal, burn_fee |-> NoDecimal]
NoToggle == [withdrawals_enabled |-> FALSE, deposits_enabled |-> FALSE, swaps_enabled |-> FALSE]
NoUpdate == [owner |-> None, fee_collector_addr |-> None, pool_fees |-> NoPoolFee,
             feature_toggle |-> [present |-> FALSE, v |-> NoToggle], amp_factor |-> NoAmp]

\* TrioInfoRaw::query_pools: the balances the querier reports, in configured order
query_pools(bal) == [i \in PoolIdx |-> [info |-> AssetInfos[i], amount |-> bal[i]]]

\* helpers::get_protocol_fee_for_asset: the ledger amount of asset_id, zero when absent
get_protocol_fee_for_asset(fees, asset_id) ==
    IF \E i \in DOMAIN fees : fees[i].info = asset_id
    THEN fees[CHOOSE i \in DOMAIN fees : fees[i].info = asset_id].amount
    ELSE 0

\* state::store_fee: adds fee_amount to the entry of asset_id of one ledger
store_fee(ledger, fee_amount, asset_id) ==
    [i \in DOMAIN ledger |->
        IF ledger[i].info = asset_id
        THEN [info |-> ledger[i].info, amount |-> ledger[i].amount + fee_amount]
        ELSE ledger[i]]

\* Asset::assert_sent_native_token_balance: the funds sent must match a native asset
assert_sent_native_token_balance(asset, funds) ==
    IF is_native_token(asset.info) /\ funds # asset.amount THEN Err("Std") ELSE Ok(0)

\* Asset::into_msg: BankMsg::Send for a native coin, Cw20 Transfer for a token
into_msg(asset, recipient) ==
    [kind |-> IF is_native_token(asset.info) THEN "BankSend" ELSE "Cw20Transfer",
     info |-> asset.info, amount |-> asset.amount, to |-> recipient]

\* Asset::into_burn_msg: BankMsg::Burn for a native coin, Cw20 Burn for a token
into_burn_msg(asset) ==
    [kind |-> IF is_native_token(asset.info) THEN "BankBurn" ELSE "Cw20Burn",
     info |-> asset.info, amount |-> asset.amount, to |-> None]

\* helpers::assert_max_spread without belief price:
\* spread_amount / (return_amount + spread_amount) must not exceed max_spread
assert_max_spread(max_spread, return_amount, spread_amount) ==
    IF max_spread # NoDecimal
       /\ spread_amount * DECIMAL_FRACTIONAL > max_spread * (return_amount + spread_amount)
    THEN Err("MaxSpreadExceeded") ELSE Ok(0)

NoComputation == [return_amount |-> 0, spread_amount |-> 0, swap_fee_amount |-> 0,
                  protocol_fee_amount |-> 0, burn_fee_amount |-> 0, gross |-> 0]
NoPools == <<>>
NoRoles == [ask |-> 0, offer |-> 0, unswapped |-> 0]

\* what a handler hands back: the result, the messages of the Response, the
\* storage as the handler left it and, for swap, the fallible steps it ran
Response(result, messages, collected, all_time, burned, config, comp, pools, roles) ==
    [result |-> result, messages |-> messages, collected |-> collected,
     all_time |-> all_time, burned |-> burned, config |-> config,
     comp |-> comp, pools |-> pools, roles |-> roles, trace |-> <<>>]

Failure(e, pools) ==
    Response(e, <<>>, COLLECTED_PROTOCOL_FEES, ALL_TIME_COLLECTED_PROTOCOL_FEES,
             ALL_TIME_BURNED_FEES, CONFIG, NoComputation, pools, NoRoles)

\* a `?` that returned early: the steps run so far and what storage holds then
Aborted(e, pools, trace, collected, burned) ==
    [Failure(e, pools) EXCEPT !.trace = trace, !.collected = collected, !.burned = burned]

\* the addition of store_fee stays within Uint128
ledger_fits(ledger) == \A i \in DOMAIN ledger : ledger[i].amount <= Uint128Max

----------------------------------------------------------------------------
(* PoolRouter *)

\* mutant: only a native offer is taken out of the offer pool
swap_pool_amount_native_only(pool, offer_asset) ==
    LET protocol_fee == get_protocol_fee_for_asset(COLLECTED_PROTOCOL_FEES, pool.info)
        a1 == checked_sub(pool.amount, protocol_fee)
    IN  IF ~a1.ok THEN a1
        ELSE IF pool.info = offer_asset.info /\ is_native_token(pool.info)
             THEN checked_sub(a1.v, offer_asset.amount)
        ELSE a1

\* commands.rs swap: every pool minus its pending protocol fee, and the pool of
\* the offered asset minus the offer amount
swap_pool_amount(pool, offer_asset) ==
    LET protocol_fee == get_protocol_fee_for_asset(COLLECTED_PROTOCOL_FEES, pool.info)
        a1 == checked_sub(pool.amount, protocol_fee)
    IN  IF ~a1.ok THEN a1
        ELSE IF pool.info = offer_asset.info THEN checked_sub(a1.v, offer_asset.amount)
        ELSE a1

\* mutant: the raw balance is used as the reserve
query_pool_amount_raw(pool) == Ok(pool.amount)

\* queries.rs query_simulation / query_reverse_simulation: pool minus pending fee
query_pool_amount(pool) ==
    checked_sub(pool.amount, get_protocol_fee_for_asset(COLLECTED_PROTOCOL_FEES, pool.info))

\* collect::<StdResult<Vec<_>>>: the first error, else the adjusted pools
collect_pools(queried, amounts) ==
    IF \E i \in PoolIdx : ~amounts[i].ok
    THEN Err("OverflowError")
    ELSE Ok([i \in PoolIdx |-> [info |-> queried[i].info, amount |-> amounts[i].v]])

\* mutant: a request the ladder does not know is served from the first pools
resolve_roles_without_mismatch(pools, offer_info, ask_info) ==
    IF ask_info = pools[1].info /\ offer_info = pools[2].info
    THEN Ok([ask |-> 1, offer |-> 2, unswapped |-> 3])
    ELSE IF ask_info = pools[1].info /\ offer_info = pools[3].info
    THEN Ok([ask |-> 1, offer |-> 3, unswapped |-> 2])
    ELSE IF ask_info = pools[2].info /\ offer_info = pools[1].info
    THEN Ok([ask |-> 2, offer |-> 1, unswapped |-> 3])
    ELSE IF ask_info = pools[2].info /\ offer_info = pools[3].info
    THEN Ok([ask |-> 2, offer |-> 3, unswapped |-> 1])
    ELSE IF ask_info = pools[3].info /\ offer_info = pools[1].info
    THEN Ok([ask |-> 3, offer |-> 1, unswapped |-> 2])
    ELSE Ok([ask |-> 3, offer |-> 2, unswapped |-> 1])

\* mutant: the first branch under ask = pools[1] takes pools[0] as the
\* unswapped pool and pools[2] as the offer pool
resolve_roles_exchanging_one_branch(pools, offer_info, ask_info) ==
    IF ask_info = pools[1].info THEN
        IF offer_info = pools[2].info THEN Ok([ask |-> 1, offer |-> 2, unswapped |-> 3])
        ELSE IF offer_info = pools[3].info THEN Ok([ask |-> 1, offer |-> 3, unswapped |-> 2])
        ELSE Err("AssetMismatch")
    ELSE IF ask_info = pools[2].info THEN
        IF offer_info = pools[1].info THEN Ok([ask |-> 2, offer |-> 3, unswapped |-> 1])
        ELSE IF offer_info = pools[3].info THEN Ok([ask |-> 2, offer |-> 3, unswapped |-> 1])
        ELSE Err("AssetMismatch")
    ELSE IF ask_info = pools[3].info THEN
        IF offer_info = pools[1].info THEN Ok([ask |-> 3, offer |-> 1, unswapped |-> 2])
        ELSE IF offer_info = pools[2].info THEN Ok([ask |-> 3, offer |-> 2, unswapped |-> 1])
        ELSE Err("AssetMismatch")
    ELSE Err("AssetMismatch")

\* the if/else ladder selecting the ask, offer and unswapped pool
resolve_roles(pools, offer_info, ask_info) ==
    IF ask_info = pools[1].info THEN
        IF offer_info = pools[2].info THEN Ok([ask |-> 1, offer |-> 2, unswapped |-> 3])
        ELSE IF offer_info = pools[3].info THEN Ok([ask |-> 1, offer |-> 3, unswapped |-> 2])
        ELSE Err("AssetMismatch")
    ELSE IF ask_info = pools[2].info THEN
        IF offer_info = pools[1].info THEN Ok([ask |-> 2, offer |-> 1, unswapped |-> 3])
        ELSE IF offer_info = pools[3].info THEN Ok([ask |-> 2, offer |-> 3, unswapped |-> 1])
        ELSE Err("AssetMismatch")
    ELSE IF ask_info = pools[3].info THEN
        IF offer_info = pools[1].info THEN Ok([ask |-> 3, offer |-> 1, unswapped |-> 2])
        ELSE IF offer_info = pools[2].info THEN Ok([ask |-> 3, offer |-> 2, unswapped |-> 1])
        ELSE Err("AssetMismatch")
    ELSE Err("AssetMismatch")

\* trio_info.asset_decimals, as the tests instantiate it
asset_decimals == <<6, 8, 10>>
NoDecimals == [ask_decimal |-> 0, offer_decimal |-> 0]

\* ask_decimal and offer_decimal, assigned in the branches of the ladder of swap
swap_decimals(pools, offer_info, ask_info) ==
    IF ask_info = pools[1].info THEN
        IF offer_info = pools[2].info
        THEN [ask_decimal |-> asset_decimals[1], offer_decimal |-> asset_decimals[2]]
        ELSE IF offer_info = pools[3].info
        THEN [ask_decimal |-> asset_decimals[1], offer_decimal |-> asset_decimals[3]]
        ELSE NoDecimals
    ELSE IF ask_info = pools[2].info THEN
        IF offer_info = pools[1].info
        THEN [ask_decimal |-> asset_decimals[2], offer_decimal |-> asset_decimals[1]]
        ELSE IF offer_info = pools[3].info
        THEN [ask_decimal |-> asset_decimals[2], offer_decimal |-> asset_decimals[3]]
        ELSE NoDecimals
    ELSE IF ask_info = pools[3].info THEN
        IF offer_info = pools[1].info
        THEN [ask_decimal |-> asset_decimals[3], offer_decimal |-> asset_decimals[1]]
        ELSE IF offer_info = pools[2].info
        THEN [ask_decimal |-> asset_decimals[3], offer_decimal |-> asset_decimals[2]]
        ELSE NoDecimals
    ELSE NoDecimals

----------------------------------------------------------------------------
(* commands.rs swap *)

\* mutant: the burn fee stays in the pool, no burn instruction is issued
swap_messages_without_burn(c, ask_pool, receiver) ==
    IF c.return_amount # 0
    THEN <<into_msg([info |-> ask_pool.info, amount |-> c.return_amount], receiver)>>
    ELSE <<>>

\* mutant: the burn is pushed before the return transfer
swap_messages_burn_first(c, ask_pool, receiver) ==
    (IF c.burn_fee_amount # 0
     THEN <<into_burn_msg([info |-> ask_pool.info, amount |-> c.burn_fee_amount])>>
     ELSE <<>>)
    \o (IF c.return_amount # 0
        THEN <<into_msg([info |-> ask_pool.info, amount |-> c.return_amount], receiver)>>
        ELSE <<>>)

\* the messages of the response: the return transfer, then the burn
swap_messages(c, ask_pool, receiver) ==
    (IF c.return_amount # 0
     THEN <<into_msg([info |-> ask_pool.info, amount |-> c.return_amount], receiver)>>
     ELSE <<>>)
    \o (IF c.burn_fee_amount # 0
        THEN <<into_burn_msg([info |-> ask_pool.info, amount |-> c.burn_fee_amount])>>
        ELSE <<>>)

\* mutant: the burn is issued but not recorded
store_burn_fee_skipped(c, ask_pool) == ALL_TIME_BURNED_FEES

\* store_fee(.., ALL_TIME_BURNED_FEES) inside the burn branch
store_burn_fee(c, ask_pool) ==
    IF c.burn_fee_amount # 0
    THEN store_fee(ALL_TIME_BURNED_FEES, c.burn_fee_amount, ask_pool.info)
    ELSE ALL_TIME_BURNED_FEES

\* mutant: the swap fee is recorded together with the protocol fee
store_protocol_fee_with_swap_fee(ledger, c, ask_pool) ==
    store_fee(ledger, c.protocol_fee_amount + c.swap_fee_amount, ask_pool.info)

\* store_fee(.., COLLECTED_PROTOCOL_FEES) and store_fee(.., ALL_TIME_COLLECTED_PROTOCOL_FEES)
store_protocol_fee(ledger, c, ask_pool) ==
    store_fee(ledger, c.protocol_fee_amount, ask_pool.info)

\* the fallible steps that precede the writes of swap, in the order of the code
swap_entry_steps ==
    <<"assert_sent_native_token_balance", "checked_sub", "resolve_roles",
      "compute_swap", "assert_max_spread">>

\* every fallible step of a swap that computed c, in the order of the code
swap_steps(c) ==
    swap_entry_steps
        \o (IF c.return_amount # 0 THEN <<"into_msg">> ELSE <<>>)
        \o (IF c.burn_fee_amount # 0
            THEN <<"store_fee:ALL_TIME_BURNED_FEES", "into_burn_msg">> ELSE <<>>)
        \o <<"store_fee:COLLECTED_PROTOCOL_FEES",
             "store_fee:ALL_TIME_COLLECTED_PROTOCOL_FEES">>

\* the three store_fee of swap: each can fail after the ones before it wrote
swap_store(pools, roles, c, ask_pool, receiver, burned, collected, all_time, steps) ==
    IF ~ledger_fits(burned)
    THEN Aborted("OverflowError", pools,
                 SubSeq(steps, 1, Len(steps) - (IF c.burn_fee_amount # 0 THEN 3 ELSE 2)),
                 COLLECTED_PROTOCOL_FEES, ALL_TIME_BURNED_FEES)
    ELSE IF ~ledger_fits(collected)
    THEN Aborted("OverflowError", pools, SubSeq(steps, 1, Len(steps) - 1),
                 COLLECTED_PROTOCOL_FEES, burned)
    ELSE IF ~ledger_fits(all_time)
    THEN Aborted("OverflowError", pools, steps, collected, burned)
    ELSE [Response("Ok", swap_messages(c, ask_pool, receiver), collected, all_time,
                   burned, CONFIG, c, pools, roles) EXCEPT !.trace = steps]

\* swap once the SwapComputation c is known: the spread check, then the writes
swap_computed(pools, roles, c, ask_pool, max_spread, receiver) ==
    LET spread == assert_max_spread(max_spread, c.return_amount, c.spread_amount)
    IN  IF ~spread.ok
        THEN Aborted(spread.err, pools, swap_entry_steps,
                     COLLECTED_PROTOCOL_FEES, ALL_TIME_BURNED_FEES)
        ELSE swap_store(pools, roles, c, ask_pool, receiver,
                        store_burn_fee(c, ask_pool),
                        store_protocol_fee(COLLECTED_PROTOCOL_FEES, c, ask_pool),
                        store_protocol_fee(ALL_TIME_COLLECTED_PROTOCOL_FEES, c, ask_pool),
                        swap_steps(c))

\* swap once the roles are resolved: compute_swap on the three pools
swap_resolved(pools, roles, offer_asset, max_spread, receiver) ==
    LET swap_computation == compute_swap(pools[roles.offer].amount, pools[roles.ask].amount,
                                pools[roles.unswapped].amount, offer_asset.amount,
                                CONFIG.pool_fees, CONFIG.amp_factor)
    IN  IF ~swap_computation.ok
        THEN Aborted(swap_computation.err, pools, SubSeq(swap_entry_steps, 1, 4),
                     COLLECTED_PROTOCOL_FEES, ALL_TIME_BURNED_FEES)
        ELSE swap_computed(pools, roles, swap_computation.v, pools[roles.ask],
                           max_spread, receiver)

\* swap once the pools are net of the pending fees: the role ladder
swap_with_pools(pools, offer_asset, ask_info, max_spread, receiver) ==
    LET roles == resolve_roles(pools, offer_asset.info, ask_info)
    IN  IF ~roles.ok
        THEN Aborted(roles.err, pools, SubSeq(swap_entry_steps, 1, 3),
                     COLLECTED_PROTOCOL_FEES, ALL_TIME_BURNED_FEES)
        ELSE swap_resolved(pools, roles.v @@ swap_decimals(pools, offer_asset.info, ask_info),
                           offer_asset, max_spread, receiver)

swap(bal, funds, sender, offer_asset, ask_info, max_spread, to) ==
    LET sent == assert_sent_native_token_balance(offer_asset, funds)
        queried == query_pools(bal)
        pools == collect_pools(queried,
                    [i \in PoolIdx |-> swap_pool_amount(queried[i], offer_asset)])
    IN
    IF ~sent.ok
    THEN Aborted(sent.err, NoPools, SubSeq(swap_entry_steps, 1, 1),
                 COLLECTED_PROTOCOL_FEES, ALL_TIME_BURNED_FEES)
    ELSE IF ~pools.ok
    THEN Aborted(pools.err, NoPools, SubSeq(swap_entry_steps, 1, 2),
                 COLLECTED_PROTOCOL_FEES, ALL_TIME_BURNED_FEES)
    ELSE swap_with_pools(pools.v, offer_asset, ask_info, max_spread,
                         IF to # None THEN to ELSE sender)

----------------------------------------------------------------------------
(* commands.rs provide_liquidity *)

mint_lp_token_msg(recipient, amount) ==
    [kind |-> "Cw20Mint", info |-> LiquidityToken, amount |-> amount, to |-> recipient]

transfer_from_msg(info, owner, amount) ==
    [kind |-> "Cw20TransferFrom", info |-> info, amount |-> amount, to |-> ContractAddr]

\* StableSwap::compute_mint_amount_for_deposit
compute_mint_amount_for_deposit(deposits, amounts, share) ==
    LET d_0 == compute_d(amounts, CONFIG.amp_factor)
        d_1 == compute_d([i \in PoolIdx |-> amounts[i] + deposits[i]], CONFIG.amp_factor)
    IN  IF ~d_0.ok THEN d_0
        ELSE IF ~d_1.ok THEN d_1
        ELSE IF d_1.v < d_0.v \/ d_0.v = 0 THEN Err("OverflowError")
        ELSE Ok((share * (d_1.v - d_0.v)) \div d_0.v)

\* mutant: the native deposit stays in the reserve
provide_pool_amount_with_deposit(pool, deposit) == Ok(pool.amount)

\* the deposit loop: native pools lose the deposit the bank already credited
provide_pool_amount(pool, deposit) ==
    IF is_native_token(pool.info) THEN checked_sub(pool.amount, deposit) ELSE Ok(pool.amount)

\* mutant: only the first deposit is looked at
has_zero_deposit_first_only(deposits) == deposits[1] = 0

\* deposits[0].is_zero() || deposits[1].is_zero() || deposits[2].is_zero()
has_zero_deposit(deposits) == deposits[1] = 0 \/ deposits[2] = 0 \/ deposits[3] = 0

\* mutant: the first depositor is minted all of D on top of the locked amount
initial_share_without_lock(d) == Ok(d)

\* the share of the first depositor: D minus the locked minimum liquidity
initial_share(d) ==
    LET share == checked_sub(d, MINIMUM_LIQUIDITY_AMOUNT * 3)
    IN  IF share.ok THEN share ELSE Err("InvalidInitialLiquidityAmount")

provide_liquidity(bal, funds, sender, deposits, receiver) ==
    LET queried == query_pools(bal)
        sent == assert_sent_native_token_balance(
                    [info |-> AssetInfos[1], amount |-> deposits[1]], funds)
        transfers == [i \in {2, 3} |-> transfer_from_msg(queried[i].info, sender, deposits[i])]
        messages == <<transfers[2], transfers[3]>>
        after_deposit == [i \in PoolIdx |-> provide_pool_amount(queried[i], deposits[i])]
        after_fee == [i \in PoolIdx |->
                        IF ~after_deposit[i].ok THEN after_deposit[i]
                        ELSE checked_sub(after_deposit[i].v,
                                get_protocol_fee_for_asset(COLLECTED_PROTOCOL_FEES, queried[i].info))]
        pools == collect_pools(queried, after_fee)
        recv == IF receiver # None THEN receiver ELSE sender
    IN
    IF ~CONFIG.feature_toggle.deposits_enabled THEN Failure("OperationDisabled", NoPools)
    ELSE IF ~sent.ok THEN Failure(sent.err, NoPools)
    ELSE IF has_zero_deposit(deposits) THEN Failure("InvalidZeroAmount", NoPools)
    ELSE IF ~pools.ok THEN Failure(pools.err, NoPools)
    ELSE IF total_share = 0 THEN
        LET min_lp_token_amount == MINIMUM_LIQUIDITY_AMOUNT * 3
            d == compute_d(deposits, CONFIG.amp_factor)
        IN  IF ~d.ok THEN Failure("Panic", pools.v)
            ELSE IF ~initial_share(d.v).ok
                 THEN Failure(initial_share(d.v).err, pools.v)
            ELSE Response("Ok",
                      messages \o <<mint_lp_token_msg(ContractAddr, min_lp_token_amount),
                                    mint_lp_token_msg(recv, initial_share(d.v).v)>>,
                      COLLECTED_PROTOCOL_FEES, ALL_TIME_COLLECTED_PROTOCOL_FEES,
                      ALL_TIME_BURNED_FEES, CONFIG, NoComputation, pools.v, NoRoles)
    ELSE
        LET share == compute_mint_amount_for_deposit(deposits,
                        [i \in PoolIdx |-> pools.v[i].amount], total_share)
        IN  IF ~share.ok THEN Failure("Panic", pools.v)
            ELSE Response("Ok", messages \o <<mint_lp_token_msg(recv, share.v)>>,
                      COLLECTED_PROTOCOL_FEES, ALL_TIME_COLLECTED_PROTOCOL_FEES,
                      ALL_TIME_BURNED_FEES, CONFIG, NoComputation, pools.v, NoRoles)

----------------------------------------------------------------------------
(* commands.rs withdraw_liquidity *)

burn_lp_msg(amount) ==
    [kind |-> "Cw20Burn", info |-> LiquidityToken, amount |-> amount, to |-> None]

\* mutant: the pending fee is refunded along with the reserve
withdraw_refund_amount_raw(pool_asset) == Ok(pool_asset.amount)

\* pool_asset.amount.checked_sub(protocol_fee)
withdraw_refund_amount(pool_asset) ==
    checked_sub(pool_asset.amount,
        get_protocol_fee_for_asset(COLLECTED_PROTOCOL_FEES, pool_asset.info))

withdraw_liquidity(bal, sender, amount) ==
    LET pool_assets == query_pools(bal)
        refund_amounts == [i \in PoolIdx |-> withdraw_refund_amount(pool_assets[i])]
        pools == collect_pools(pool_assets, refund_amounts)
    IN
    IF total_share = 0 THEN Failure("Panic", NoPools)
    ELSE IF ~pools.ok THEN Failure(pools.err, NoPools)
    ELSE
    LET share_ratio == from_ratio(amount, total_share)
        refund_assets == [i \in PoolIdx |->
            [info |-> pools.v[i].info, amount |-> mul_decimal(pools.v[i].amount, share_ratio)]]
    IN  Response("Ok",
            <<into_msg(refund_assets[1], sender), into_msg(refund_assets[2], sender),
              into_msg(refund_assets[3], sender), burn_lp_msg(amount)>>,
            COLLECTED_PROTOCOL_FEES, ALL_TIME_COLLECTED_PROTOCOL_FEES,
            ALL_TIME_BURNED_FEES, CONFIG, NoComputation, pools.v, NoRoles)

----------------------------------------------------------------------------
(* commands.rs update_config, collect_protocol_fees *)

\* mutant: only the range of each share is validated, not their sum
pool_fees_is_valid_each_share_only(pool_fees) ==
    /\ pool_fees.protocol_fee < DECIMAL_FRACTIONAL
    /\ pool_fees.swap_fee < DECIMAL_FRACTIONAL
    /\ pool_fees.burn_fee < DECIMAL_FRACTIONAL

\* PoolFee::is_valid: every share is below one, and so is their sum (shares
\* that reach one together would leave nothing, or less, to return)
pool_fees_is_valid(pool_fees) ==
    /\ pool_fees.protocol_fee < DECIMAL_FRACTIONAL
    /\ pool_fees.swap_fee < DECIMAL_FRACTIONAL
    /\ pool_fees.burn_fee < DECIMAL_FRACTIONAL
    /\ pool_fees.protocol_fee + pool_fees.swap_fee + pool_fees.burn_fee < DECIMAL_FRACTIONAL

update_config(sender, msg) ==
    LET c1 == IF msg.owner # None THEN [CONFIG EXCEPT !.owner = msg.owner] ELSE CONFIG
        c2 == IF msg.pool_fees # NoPoolFee THEN [c1 EXCEPT !.pool_fees = msg.pool_fees] ELSE c1
        c3 == IF msg.feature_toggle.present
              THEN [c2 EXCEPT !.feature_toggle = msg.feature_toggle.v] ELSE c2
        c4 == IF msg.amp_factor # NoAmp THEN [c3 EXCEPT !.amp_factor = msg.amp_factor] ELSE c3
        c5 == IF msg.fee_collector_addr # None
              THEN [c4 EXCEPT !.fee_collector_addr = msg.fee_collector_addr] ELSE c4
    IN
    IF sender # CONFIG.owner THEN Failure("Std", NoPools)
    ELSE IF msg.pool_fees # NoPoolFee /\ ~pool_fees_is_valid(msg.pool_fees)
         THEN Failure("Std", NoPools)
    ELSE Response("Ok", <<>>, COLLECTED_PROTOCOL_FEES, ALL_TIME_COLLECTED_PROTOCOL_FEES,
                  ALL_TIME_BURNED_FEES, c5, NoComputation, NoPools, NoRoles)

\* mutant: a transfer is pushed for every asset, zero amounts included
fee_messages_without_zero_check(protocol_fees, i) ==
    [k \in 1..Len(protocol_fees) |-> into_msg(protocol_fees[k], CONFIG.fee_collector_addr)]

RECURSIVE fee_messages(_, _)
fee_messages(protocol_fees, i) ==
    IF i > Len(protocol_fees) THEN <<>>
    ELSE (IF protocol_fees[i].amount # 0
          THEN <<into_msg(protocol_fees[i], CONFIG.fee_collector_addr)>> ELSE <<>>)
         \o fee_messages(protocol_fees, i + 1)

\* mutant: the pending fees are sent but the pending ledger is not reset
collect_protocol_fees_keeping_pending ==
    Response("Ok", fee_messages(COLLECTED_PROTOCOL_FEES, 1), COLLECTED_PROTOCOL_FEES,
             ALL_TIME_COLLECTED_PROTOCOL_FEES, ALL_TIME_BURNED_FEES, CONFIG,
             NoComputation, NoPools, NoRoles)

\* mutant: the sweep resets the all-time ledger as well
collect_protocol_fees_resetting_all_time ==
    Response("Ok", <<>>, ZeroLedger, ZeroLedger, ALL_TIME_BURNED_FEES, CONFIG,
             NoComputation, NoPools, NoRoles)

collect_protocol_fees ==
    LET protocol_fees == COLLECTED_PROTOCOL_FEES
        reset == <<[info |-> protocol_fees[1].info, amount |-> 0],
                   [info |-> protocol_fees[2].info, amount |-> 0],
                   [info |-> protocol_fees[3].info, amount |-> 0]>>
    IN  Response("Ok", fee_messages(protocol_fees, 1), reset,
                 ALL_TIME_COLLECTED_PROTOCOL_FEES, ALL_TIME_BURNED_FEES, CONFIG,
                 NoComputation, NoPools, NoRoles)


----------------------------------------------------------------------------
(* commands.rs receive_cw20 and the ExecuteMsg::Swap entry point *)

\* mutant: the Swap hook is open to every cw20 contract
receive_cw20_swap_any_caller(bal, info_sender, cw20_sender, amount, ask_info, max_spread, to) ==
    IF ~CONFIG.feature_toggle.swaps_enabled THEN Failure("OperationDisabled", NoPools)
    ELSE swap(bal, 0, cw20_sender, [info |-> info_sender, amount |-> amount],
              ask_info, max_spread, to)

\* mutant: the Swap hook checks its caller before the toggle
receive_cw20_swap_authorizing_first(bal, info_sender, cw20_sender, amount, ask_info, max_spread, to) ==
    LET pools == query_pools(bal)
        authorized == \E i \in PoolIdx :
                        ~is_native_token(pools[i].info) /\ pools[i].info = info_sender
    IN  IF ~authorized THEN Failure("Unauthorized", NoPools)
        ELSE IF ~CONFIG.feature_toggle.swaps_enabled
        THEN Failure("OperationDisabled", NoPools)
        ELSE swap(bal, 0, cw20_sender, [info |-> info_sender, amount |-> amount],
                  ask_info, max_spread, to)

\* the Swap hook: only a token contract of the pool may call it
receive_cw20_swap(bal, info_sender, cw20_sender, amount, ask_info, max_spread, to) ==
    LET pools == query_pools(bal)
        authorized == \E i \in PoolIdx :
                        ~is_native_token(pools[i].info) /\ pools[i].info = info_sender
    IN  IF ~CONFIG.feature_toggle.swaps_enabled THEN Failure("OperationDisabled", NoPools)
        ELSE IF ~authorized THEN Failure("Unauthorized", NoPools)
        ELSE swap(bal, 0, cw20_sender, [info |-> info_sender, amount |-> amount],
                  ask_info, max_spread, to)

\* the WithdrawLiquidity hook: only the liquidity token may call it
receive_cw20_withdraw(bal, info_sender, cw20_sender, amount) ==
    IF ~CONFIG.feature_toggle.withdrawals_enabled THEN Failure("OperationDisabled", NoPools)
    ELSE IF info_sender # LiquidityToken THEN Failure("Unauthorized", NoPools)
    ELSE withdraw_liquidity(bal, cw20_sender, amount)

\* ExecuteMsg::Swap: a token offer must come through the cw20 hook
execute_swap(bal, funds, sender, offer_asset, ask_info, max_spread, to) ==
    IF ~CONFIG.feature_toggle.swaps_enabled THEN Failure("OperationDisabled", NoPools)
    ELSE IF ~is_native_token(offer_asset.info) THEN Failure("Unauthorized", NoPools)
    ELSE swap(bal, funds, sender, offer_asset, ask_info, max_spread, to)

----------------------------------------------------------------------------
(* queries.rs *)

\* query_pool: the subtraction is the unchecked `-` of Uint128, which panics
query_pool(bal) ==
    LET queried == query_pools(bal)
        fees == [i \in PoolIdx |->
                    get_protocol_fee_for_asset(COLLECTED_PROTOCOL_FEES, queried[i].info)]
    IN  IF \E i \in PoolIdx : fees[i] > queried[i].amount
        THEN Failure("Panic", NoPools)
        ELSE Response("Ok", <<>>, COLLECTED_PROTOCOL_FEES, ALL_TIME_COLLECTED_PROTOCOL_FEES,
                 ALL_TIME_BURNED_FEES, CONFIG, NoComputation,
                 [i \in PoolIdx |-> [info |-> queried[i].info,
                                     amount |-> queried[i].amount - fees[i]]],
                 NoRoles)

query_simulation(bal, offer_asset, ask_info) ==
    LET queried == query_pools(bal)
        pools == collect_pools(queried, [i \in PoolIdx |-> query_pool_amount(queried[i])])
    IN
    IF ~pools.ok THEN Failure(pools.err, NoPools)
    ELSE
    LET roles == resolve_roles(pools.v, offer_asset.info, ask_info)
    IN
    IF ~roles.ok THEN Failure(roles.err, pools.v)
    ELSE
    LET swap_computation == compute_swap(pools.v[roles.v.offer].amount,
                                pools.v[roles.v.ask].amount,
                                pools.v[roles.v.unswapped].amount, offer_asset.amount,
                                CONFIG.pool_fees, CONFIG.amp_factor)
    IN  IF ~swap_computation.ok THEN Failure(swap_computation.err, pools.v)
        ELSE Response("Ok", <<>>, COLLECTED_PROTOCOL_FEES, ALL_TIME_COLLECTED_PROTOCOL_FEES,
                      ALL_TIME_BURNED_FEES, CONFIG, swap_computation.v, pools.v, roles.v)

query_reverse_simulation(bal, ask_asset, offer_info) ==
    LET queried == query_pools(bal)
        pools == collect_pools(queried, [i \in PoolIdx |-> query_pool_amount(queried[i])])
    IN
    IF ~pools.ok THEN Failure(pools.err, NoPools)
    ELSE
    LET roles == resolve_roles(pools.v, offer_info, ask_asset.info)
    IN
    IF ~roles.ok THEN Failure(roles.err, pools.v)
    ELSE
    LET c == compute_offer_amount(pools.v[roles.v.offer].amount,
                                  pools.v[roles.v.ask].amount,
                                  pools.v[roles.v.unswapped].amount, ask_asset.amount,
                                  CONFIG.pool_fees, CONFIG.amp_factor)
    IN  IF ~c.ok THEN Failure(c.err, pools.v)
        ELSE Response("Ok", <<>>, COLLECTED_PROTOCOL_FEES, ALL_TIME_COLLECTED_PROTOCOL_FEES,
                      ALL_TIME_BURNED_FEES, CONFIG,
                      [return_amount |-> c.v.offer_amount,
                       spread_amount |-> c.v.spread_amount,
                       swap_fee_amount |-> c.v.swap_fee_amount,
                       protocol_fee_amount |-> c.v.protocol_fee_amount,
                       burn_fee_amount |-> c.v.burn_fee_amount,
                       gross |-> ask_asset.amount],
                      pools.v, roles.v)


----------------------------------------------------------------------------
(* The chain around the contract: funds are credited before the handler runs,
   the messages of an Ok response are executed after it, and an Err response
   reverts the whole invocation. *)

Sender == "addr0000"
Infos == {"uusd", "asset0000", "asset0001", "invalid_token"}
Callers == {"asset0000", "asset0001", LiquidityToken, "addr0000"}
Recipients == {None, "third_party"}
\* (max_spread, to) of a swap request
SwapOptions == {<<NoDecimal, None>>, <<NoDecimal, "third_party">>, <<0, None>>}
OfferAmounts == {OfferUnit * k : k \in 1..MaxOffer}
DepositAmounts == {DepositUnit * k : k \in 0..MaxDeposit}
\* a deposit whose D stays below the locked minimum liquidity
DustDeposit == 1
Deposits == [PoolIdx -> DepositAmounts] \cup {[i \in PoolIdx |-> DustDeposit]}
WithdrawAmounts == {DepositUnit * k : k \in 1..MaxDeposit}

idx_of(info) == CHOOSE i \in PoolIdx : AssetInfos[i] = info
is_pool_asset(info) == \E i \in PoolIdx : AssetInfos[i] = info

\* the balance after `amount` of `info` arrived at the contract
credit(bal, info, amount) ==
    IF is_pool_asset(info) THEN [bal EXCEPT ![idx_of(info)] = @ + amount] ELSE bal

\* net outflow of asset i caused by the messages of a response
RECURSIVE outflow(_, _, _)
outflow(messages, i, k) ==
    IF k > Len(messages) THEN 0
    ELSE (IF messages[k].info = AssetInfos[i]
          THEN (IF messages[k].kind \in {"BankSend", "Cw20Transfer", "BankBurn", "Cw20Burn"}
                THEN messages[k].amount
                ELSE IF messages[k].kind = "Cw20TransferFrom" THEN 0 - messages[k].amount
                ELSE 0)
          ELSE 0) + outflow(messages, i, k + 1)

\* change of the liquidity token's total supply caused by the messages
RECURSIVE minted(_, _)
minted(messages, k) ==
    IF k > Len(messages) THEN 0
    ELSE (IF messages[k].info = LiquidityToken
          THEN (IF messages[k].kind = "Cw20Mint" THEN messages[k].amount
                ELSE 0 - messages[k].amount)
          ELSE 0) + minted(messages, k + 1)

executable(bal, r) ==
    /\ \A i \in PoolIdx : outflow(r.messages, i, 1) <= bal[i]
    /\ \A i \in PoolIdx : bal[i] - outflow(r.messages, i, 1) <= MaxBalance
    /\ total_share + minted(r.messages, 1) >= 0

NoArgs == [offer |-> None, ask |-> None, amount |-> 0, max_spread |-> NoDecimal, to |-> None,
           funds |-> 0, caller |-> None, deposits |-> <<0, 0, 0>>, msg |-> NoUpdate]

pre_state == [collected |-> COLLECTED_PROTOCOL_FEES,
              all_time |-> ALL_TIME_COLLECTED_PROTOCOL_FEES,
              burned |-> ALL_TIME_BURNED_FEES,
              config |-> CONFIG, balance |-> balance, total_share |-> total_share]

Record(op, args, bal, r) ==
    [op |-> op, args |-> args, result |-> r.result, messages |-> r.messages,
     comp |-> r.comp, pools |-> r.pools, roles |-> r.roles, trace |-> r.trace,
     queried |-> bal, pre |-> pre_state,
     left |-> [collected |-> r.collected, all_time |-> r.all_time, burned |-> r.burned,
               config |-> r.config]]

\* mutant: what the handler wrote before it failed stays in storage
Execute_committing_on_error(op, args, bal, r) ==
    /\ budget > 0
    /\ r.result = "Ok" => executable(bal, r)
    /\ last' = Record(op, args, bal, r)
    /\ COLLECTED_PROTOCOL_FEES' = r.collected
    /\ ALL_TIME_COLLECTED_PROTOCOL_FEES' = r.all_time
    /\ ALL_TIME_BURNED_FEES' = r.burned
    /\ CONFIG' = r.config
    /\ IF r.result = "Ok"
       THEN /\ balance' = [i \in PoolIdx |-> bal[i] - outflow(r.messages, i, 1)]
            /\ total_share' = total_share + minted(r.messages, 1)
            /\ budget' = budget - 1
       ELSE /\ UNCHANGED <<balance, total_share>>
            /\ budget' = 0

\* one execute invocation: commit on Ok, revert on Err.  A reverted invocation
\* leaves the contract where it was, so the explored run ends with it.
Execute(op, args, bal, r) ==
    /\ budget > 0
    /\ r.result = "Ok" => executable(bal, r)
    /\ last' = Record(op, args, bal, r)
    /\ IF r.result = "Ok"
       THEN /\ COLLECTED_PROTOCOL_FEES' = r.collected
            /\ ALL_TIME_COLLECTED_PROTOCOL_FEES' = r.all_time
            /\ ALL_TIME_BURNED_FEES' = r.burned
            /\ CONFIG' = r.config
            /\ balance' = [i \in PoolIdx |-> bal[i] - outflow(r.messages, i, 1)]
            /\ total_share' = total_share + minted(r.messages, 1)
            /\ budget' = budget - 1
       ELSE /\ UNCHANGED <<store, balance, total_share>>
            /\ budget' = 0

\* one query: nothing but the answer changes; the explored run ends with it
Query(op, args, r) ==
    /\ budget > 0
    /\ last' = Record(op, args, balance, r)
    /\ UNCHANGED <<store, balance, total_share>>
    /\ budget' = 0

ExecuteSwap ==
    \E offer \in Infos, ask \in Infos, amount \in OfferAmounts,
       opt \in SwapOptions, funds_sent \in BOOLEAN :
        LET funds == IF funds_sent /\ is_native_token(offer) THEN amount ELSE 0
            max_spread == opt[1]
            to == opt[2]
            bal == credit(balance, offer, funds)
        IN  Execute("swap",
                [NoArgs EXCEPT !.offer = offer, !.ask = ask, !.amount = amount,
                               !.max_spread = max_spread, !.to = to, !.funds = funds,
                               !.caller = Sender],
                bal,
                execute_swap(bal, funds, Sender, [info |-> offer, amount |-> amount],
                             ask, max_spread, to))

ReceiveCw20Swap ==
    \E caller \in Callers, ask \in Infos, amount \in OfferAmounts,
       opt \in SwapOptions :
        LET max_spread == opt[1]
            to == opt[2]
            bal == credit(balance, caller, amount)
        IN  Execute("swap",
                [NoArgs EXCEPT !.offer = caller, !.ask = ask, !.amount = amount,
                               !.max_spread = max_spread, !.to = to, !.caller = caller],
                bal,
                receive_cw20_swap(bal, caller, Sender, amount, ask, max_spread, to))

\* shares the liquidity token lets users send: all but the locked minimum
user_shares == IF total_share > MINIMUM_LIQUIDITY_AMOUNT * 3
               THEN total_share - MINIMUM_LIQUIDITY_AMOUNT * 3 ELSE 0

ReceiveCw20Withdraw ==
    \E caller \in Callers, amount \in WithdrawAmounts :
        /\ caller = LiquidityToken => amount <= user_shares
        /\ Execute("withdraw_liquidity",
                [NoArgs EXCEPT !.amount = amount, !.caller = caller],
                balance,
                receive_cw20_withdraw(balance, caller, Sender, amount))

ProvideLiquidity ==
    \E deposits \in Deposits, receiver \in Recipients :
        LET bal == credit(balance, AssetInfos[1], deposits[1])
        IN  Execute("provide_liquidity",
                [NoArgs EXCEPT !.deposits = deposits, !.to = receiver,
                               !.funds = deposits[1], !.caller = Sender],
                bal,
                provide_liquidity(bal, deposits[1], Sender, deposits, receiver))

CollectProtocolFees ==
    Execute("collect_protocol_fees", NoArgs, balance, collect_protocol_fees)

NoBurnFees == [protocol_fee |-> 10, swap_fee |-> 20, burn_fee |-> 0]
HeavyFees == [protocol_fee |-> 50, swap_fee |-> 50, burn_fee |-> 50]
InvalidFees == [protocol_fee |-> 10, swap_fee |-> DECIMAL_FRACTIONAL, burn_fee |-> 0]
SwapsOff == [withdrawals_enabled |-> TRUE, deposits_enabled |-> TRUE, swaps_enabled |-> FALSE]
UpdateMsgs ==
    {[NoUpdate EXCEPT !.pool_fees = NoBurnFees],
     [NoUpdate EXCEPT !.pool_fees = HeavyFees, !.owner = "addr0001"],
     [NoUpdate EXCEPT !.pool_fees = InvalidFees, !.fee_collector_addr = "collector2"],
     [NoUpdate EXCEPT !.feature_toggle = [present |-> TRUE, v |-> SwapsOff]],
     [NoUpdate EXCEPT !.amp_factor = 0],
     [NoUpdate EXCEPT !.fee_collector_addr = "collector2", !.amp_factor = 2]}

UpdateConfig ==
    \E sender \in {"addr0000", "addr0001"}, msg \in UpdateMsgs :
        Execute("update_config", [NoArgs EXCEPT !.caller = sender, !.msg = msg],
                balance, update_config(sender, msg))

QueryPool == Query("query_pool", NoArgs, query_pool(balance))

QuerySimulation ==
    \E offer \in Infos, ask \in Infos, amount \in OfferAmounts :
        Query("query_simulation",
              [NoArgs EXCEPT !.offer = offer, !.ask = ask, !.amount = amount],
              query_simulation(balance, [info |-> offer, amount |-> amount], ask))

QueryReverseSimulation ==
    \E offer \in Infos, ask \in Infos, amount \in OfferAmounts :
        Query("query_reverse_simulation",
              [NoArgs EXCEPT !.offer = offer, !.ask = ask, !.amount = amount],
              query_reverse_simulation(balance, [info |-> ask, amount |-> amount], offer))

----------------------------------------------------------------------------
(* Specifications *)

NoLast == [op |-> "instantiate", args |-> NoArgs, result |-> "Ok", messages |-> <<>>,
           comp |-> NoComputation, pools |-> NoPools, roles |-> NoRoles,
           trace |-> <<>>, queried |-> <<0, 0, 0>>,
           pre |-> [collected |-> ZeroLedger, all_time |-> ZeroLedger, burned |-> ZeroLedger,
                    config |-> InitConfig, balance |-> <<0, 0, 0>>, total_share |-> 0],
           left |-> [collected |-> ZeroLedger, all_time |-> ZeroLedger,
                     burned |-> ZeroLedger, config |-> InitConfig]]

\* the pool as instantiate leaves it: empty ledgers, no liquidity
Init ==
    /\ balance = <<0, 0, 0>>
    /\ total_share = 0
    /\ COLLECTED_PROTOCOL_FEES = ZeroLedger
    /\ ALL_TIME_COLLECTED_PROTOCOL_FEES = ZeroLedger
    /\ ALL_TIME_BURNED_FEES = ZeroLedger
    /\ CONFIG = InitConfig
    /\ last = NoLast
    /\ budget = MaxOps

Next ==
    \/ ExecuteSwap
    \/ ReceiveCw20Swap
    \/ ReceiveCw20Withdraw
    \/ ProvideLiquidity
    \/ CollectProtocolFees
    \/ UpdateConfig
    \/ QueryPool
    \/ QuerySimulation
    \/ QueryReverseSimulation

Spec == Init /\ [][Next]_vars


\* any storage and any querier answer: balances and pending fees are unrelated,
\* as when a token contract moved the pool's balance or the ledger was migrated,
\* and the all-time ledger may have reached the top of Uint128
AnyBalances == {DepositUnit * k : k \in 0..MaxDeposit}
AnyFees == {0, DepositUnit + OfferUnit}
AnyLedger(f) == <<[info |-> AssetInfos[1], amount |-> f[1]],
                  [info |-> AssetInfos[2], amount |-> f[2]],
                  [info |-> AssetInfos[3], amount |-> f[3]]>>

InitAny ==
    /\ balance \in [PoolIdx -> AnyBalances]
    /\ total_share \in {0, N_COINS * DepositUnit}
    /\ \E f \in [PoolIdx -> AnyFees] :
        /\ COLLECTED_PROTOCOL_FEES = AnyLedger(f)
        /\ ALL_TIME_COLLECTED_PROTOCOL_FEES
                \in {AnyLedger(f), AnyLedger([i \in PoolIdx |-> Uint128Max])}
    /\ ALL_TIME_BURNED_FEES = ZeroLedger
    /\ CONFIG = InitConfig
    /\ last = NoLast
    /\ budget = MaxOpsAny

SpecAny == InitAny /\ [][Next]_vars



\* a funded pool whose owner has set the feature toggles, each on or off
Toggles == [withdrawals_enabled : BOOLEAN, deposits_enabled : BOOLEAN,
            swaps_enabled : BOOLEAN]

InitToggled ==
    /\ balance = [i \in PoolIdx |-> DepositUnit]
    /\ total_share = N_COINS * DepositUnit
    /\ COLLECTED_PROTOCOL_FEES = ZeroLedger
    /\ ALL_TIME_COLLECTED_PROTOCOL_FEES = ZeroLedger
    /\ ALL_TIME_BURNED_FEES = ZeroLedger
    /\ \E t \in Toggles : CONFIG = [InitConfig EXCEPT !.feature_toggle = t]
    /\ last = NoLast
    /\ budget = MaxOpsAny

SpecToggled == InitToggled /\ [][Next]_vars

\* the solver on its own: compute_d applied to drawn reserves and amplification.
\* The reserves are every combination of a few small amounts, balanced and
\* imbalanced, and three strongly imbalanced vectors
SolverAmounts == {1, 2, 7, DepositUnit}
ImbalancedReserves == {<<1, 1, 13>>, <<296, 231, 1>>, <<434, 145, 1>>}
SolverReserves == [PoolIdx -> SolverAmounts] \cup ImbalancedReserves
SolverAmps == {1, 2, InitAmp}

\* the D compute_d returned is kept in return_amount
ComputeD ==
    \E xs \in SolverReserves, amp \in SolverAmps :
        LET d == compute_d(xs, amp)
        IN  /\ budget > 0
            /\ last' = [NoLast EXCEPT !.op = "compute_d",
                                      !.args.deposits = xs,
                                      !.args.msg.amp_factor = amp,
                                      !.result = d.err,
                                      !.comp.return_amount = d.v]
            /\ UNCHANGED <<store, balance, total_share>>
            /\ budget' = 0

\* compute_swap applied to drawn reserves <<offer, ask, unswapped>>, offer
\* amount and amplification, under the initial fee schedule
SolverOffers == {1, 2, OfferUnit}

ComputeSwap ==
    \E xs \in SolverReserves, amount \in SolverOffers, amp \in SolverAmps :
        LET c == compute_swap(xs[1], xs[2], xs[3], amount, InitPoolFees, amp)
        IN  /\ budget > 0
            /\ last' = [NoLast EXCEPT !.op = "compute_swap",
                                      !.args.deposits = xs,
                                      !.args.amount = amount,
                                      !.args.msg.amp_factor = amp,
                                      !.result = c.err,
                                      !.comp = IF c.ok THEN c.v ELSE NoComputation]
            /\ UNCHANGED <<store, balance, total_share>>
            /\ budget' = 0

NextSolver ==
    \/ ComputeD
    \/ ComputeSwap

SpecSolver == Init /\ [][NextSolver]_vars


----------------------------------------------------------------------------
(* Properties *)

SwapOk == last.op = "swap" /\ last.result = "Ok"
AskIdx == idx_of(last.args.ask)
OfferIdx == idx_of(last.args.offer)
SameInfos(ledger, old) == \A i \in PoolIdx : ledger[i].info = old[i].info

\* C1: a successful swap adds exactly protocol_fee_amount to the ask asset's
\* entry of the pending and of the all-time ledger, and leaves the entries of
\* the offer asset and of the unswapped asset as they were.
C1_SwapRecordsProtocolFee ==
    SwapOk =>
        /\ SameInfos(COLLECTED_PROTOCOL_FEES, last.pre.collected)
        /\ SameInfos(ALL_TIME_COLLECTED_PROTOCOL_FEES, last.pre.all_time)
        /\ \A i \in PoolIdx :
            LET delta == IF i = AskIdx THEN last.comp.protocol_fee_amount ELSE 0
            IN  /\ COLLECTED_PROTOCOL_FEES[i].amount = last.pre.collected[i].amount + delta
                /\ ALL_TIME_COLLECTED_PROTOCOL_FEES[i].amount
                     = last.pre.all_time[i].amount + delta

\* a swap that charged a protocol fee and a swap fee
C1_Witness ==
    /\ SwapOk
    /\ last.comp.protocol_fee_amount > 0
    /\ last.comp.swap_fee_amount > 0

\* C2: no step lowers any entry of the all-time protocol-fee ledger; in
\* particular collect_protocol_fees does not reset it.
C2_AllTimeMonotonic ==
    [][\A i \in PoolIdx :
        ALL_TIME_COLLECTED_PROTOCOL_FEES'[i].amount
            >= ALL_TIME_COLLECTED_PROTOCOL_FEES[i].amount]_vars

\* a sweep of a nonzero pending fee, after which the all-time entry is still there
C2_Witness ==
    /\ last.op = "collect_protocol_fees"
    /\ last.result = "Ok"
    /\ \E i \in PoolIdx :
        /\ last.pre.collected[i].amount > 0
        /\ ALL_TIME_COLLECTED_PROTOCOL_FEES[i].amount > 0

\* C3: after collect_protocol_fees every pending entry is zero with its asset
\* identifier kept, and the response holds exactly one transfer to the fee
\* collector for each asset whose pending amount was nonzero, of that amount,
\* and none for the others.
C3_CollectSweepsPending ==
    (last.op = "collect_protocol_fees" /\ last.result = "Ok") =>
        /\ \A i \in PoolIdx :
            COLLECTED_PROTOCOL_FEES[i] = [info |-> last.pre.collected[i].info, amount |-> 0]
        /\ \A i \in PoolIdx :
            Cardinality({k \in DOMAIN last.messages :
                            last.messages[k].info = last.pre.collected[i].info})
                = IF last.pre.collected[i].amount # 0 THEN 1 ELSE 0
        /\ \A k \in DOMAIN last.messages :
            /\ last.messages[k].to = last.pre.config.fee_collector_addr
            /\ last.messages[k].kind \in {"BankSend", "Cw20Transfer"}
            /\ \E i \in PoolIdx :
                /\ last.messages[k].info = last.pre.collected[i].info
                /\ last.messages[k].amount = last.pre.collected[i].amount

\* a sweep with one asset owing a fee and another owing none
C3_Witness ==
    /\ last.op = "collect_protocol_fees"
    /\ last.result = "Ok"
    /\ \E i, j \in PoolIdx :
        /\ last.pre.collected[i].amount > 0
        /\ last.pre.collected[j].amount = 0
    /\ Len(last.messages) >= 1


\* fee shares a schedule may hold, each in [0,1)
FeeShares == {0, 1, 10, 33, 50, DECIMAL_FRACTIONAL - 1}
FeeSchedules == [protocol_fee : FeeShares, swap_fee : FeeShares, burn_fee : FeeShares]
Floor(gross, share) == (gross * share) \div DECIMAL_FRACTIONAL
QuoteOk == last.op \in {"swap", "query_simulation"} /\ last.result = "Ok"

\* the split of one gross output under one schedule: when a split is produced
\* the four parts add up to the gross output and every fee is the floor of the
\* gross output times its share; none is produced (OverflowError) exactly when
\* the floored fees exceed the gross output
SplitIsExact(gross, f) ==
    LET r == apply_fees(gross, f, 0)
        fees == Floor(gross, f.protocol_fee) + Floor(gross, f.swap_fee)
                    + Floor(gross, f.burn_fee)
    IN  IF fees > gross THEN ~r.ok /\ r.err = "OverflowError"
        ELSE /\ r.ok
             /\ r.v.return_amount >= 0
             /\ r.v.return_amount + r.v.protocol_fee_amount + r.v.swap_fee_amount
                    + r.v.burn_fee_amount = gross
             /\ r.v.protocol_fee_amount = Floor(gross, f.protocol_fee)
             /\ r.v.swap_fee_amount = Floor(gross, f.swap_fee)
             /\ r.v.burn_fee_amount = Floor(gross, f.burn_fee)

BurnMessages == {k \in DOMAIN last.messages : last.messages[k].kind \in {"BankBurn", "Cw20Burn"}}
SwapBurns == SwapOk /\ last.comp.burn_fee_amount # 0
Total(ledger) == ledger[1].amount + ledger[2].amount + ledger[3].amount

\* C5 as stated: a swap with a nonzero burn fee leaves every persisted fee
\* ledger untouched by the burn fee (the burned-fees ledger keeps its value)
\* and only produces a burn instruction for the ask asset.
C5_BurnFeeEntersNoLedger ==
    SwapBurns =>
        /\ ALL_TIME_BURNED_FEES = last.pre.burned
        /\ Total(COLLECTED_PROTOCOL_FEES)
                = Total(last.pre.collected) + last.comp.protocol_fee_amount
        /\ Total(ALL_TIME_COLLECTED_PROTOCOL_FEES)
                = Total(last.pre.all_time) + last.comp.protocol_fee_amount
        /\ Cardinality(BurnMessages) = 1

\* C5: a swap with a nonzero burn fee keeps the burn fee out of the pending and
\* of the all-time protocol-fee ledger, records it in the burned-fees ledger
\* (whose total grows by burn_fee_amount) and produces exactly one burn
\* instruction, for burn_fee_amount of the ask asset: a bank burn for a native
\* coin, a token-contract burn for a token.
C5_BurnFeeIsBurnedAndRecorded ==
    SwapBurns =>
        /\ Total(ALL_TIME_BURNED_FEES) = Total(last.pre.burned) + last.comp.burn_fee_amount
        /\ Total(COLLECTED_PROTOCOL_FEES)
                = Total(last.pre.collected) + last.comp.protocol_fee_amount
        /\ Total(ALL_TIME_COLLECTED_PROTOCOL_FEES)
                = Total(last.pre.all_time) + last.comp.protocol_fee_amount
        /\ Cardinality(BurnMessages) = 1
        /\ \A k \in BurnMessages :
            /\ last.messages[k].info = last.args.ask
            /\ last.messages[k].amount = last.comp.burn_fee_amount
            /\ last.messages[k].kind
                 = IF is_native_token(last.args.ask) THEN "BankBurn" ELSE "Cw20Burn"

\* a swap whose burn fee differs from its protocol fee, asked in a token
C5_Witness ==
    /\ SwapBurns
    /\ last.comp.burn_fee_amount # last.comp.protocol_fee_amount
    /\ last.comp.protocol_fee_amount > 0
    /\ ~is_native_token(last.args.ask)
    /\ Cardinality(BurnMessages) = 1

\* C6: after a successful swap with a nonzero burn fee the ask asset's entry
\* of ALL_TIME_BURNED_FEES is burn_fee_amount above its value before the swap,
\* and the entries of the offer asset and of the unswapped asset are unchanged.
C6_BurnedLedgerGrowsByBurnFee ==
    SwapBurns =>
        /\ SameInfos(ALL_TIME_BURNED_FEES, last.pre.burned)
        /\ \A i \in PoolIdx :
            ALL_TIME_BURNED_FEES[i].amount
                = last.pre.burned[i].amount
                    + (IF i = AskIdx THEN last.comp.burn_fee_amount ELSE 0)

\* a second burn recorded under an asset that already had burned fees, while
\* the offer asset still has none
C6_Witness ==
    /\ SwapBurns
    /\ last.pre.burned[AskIdx].amount > 0
    /\ ALL_TIME_BURNED_FEES[AskIdx].amount > last.pre.burned[AskIdx].amount
    /\ ALL_TIME_BURNED_FEES[OfferIdx].amount = 0


----------------------------------------------------------------------------
(* Requests and reserves *)

\* the invocation got past the entry layer (feature toggle, authorization,
\* sent funds, nonzero deposits) and so reaches the reserve adjustment
PastEntryChecks ==
    CASE last.op = "swap" ->
            /\ last.pre.config.feature_toggle.swaps_enabled
            /\ IF is_native_token(last.args.offer)
               THEN last.args.caller = Sender /\ last.args.funds = last.args.amount
               ELSE last.args.caller = last.args.offer /\ is_pool_asset(last.args.offer)
      [] last.op = "provide_liquidity" ->
            /\ last.pre.config.feature_toggle.deposits_enabled
            /\ last.args.funds = last.args.deposits[1]
            /\ \A i \in PoolIdx : last.args.deposits[i] # 0
      [] last.op = "withdraw_liquidity" ->
            /\ last.pre.config.feature_toggle.withdrawals_enabled
            /\ last.args.caller = LiquidityToken
            /\ last.pre.total_share # 0
      [] OTHER -> last.op \in {"query_pool", "query_simulation", "query_reverse_simulation"}

\* offer and ask are the same asset, or one of them is not an asset of the pool
InvalidRequest ==
    \/ last.args.offer = last.args.ask
    \/ ~is_pool_asset(last.args.offer)
    \/ ~is_pool_asset(last.args.ask)

TradeRequest == last.op \in {"swap", "query_simulation", "query_reverse_simulation"}

LedgersUnchanged ==
    /\ COLLECTED_PROTOCOL_FEES = last.pre.collected
    /\ ALL_TIME_COLLECTED_PROTOCOL_FEES = last.pre.all_time
    /\ ALL_TIME_BURNED_FEES = last.pre.burned

\* what the handler takes out of the queried balance of asset i besides the
\* pending fee: the offer of a swap, the native deposit of a provision
Inbound(i) ==
    IF last.op = "swap" /\ AssetInfos[i] = last.args.offer THEN last.args.amount
    ELSE IF last.op = "provide_liquidity" /\ is_native_token(AssetInfos[i])
         THEN last.args.deposits[i]
    ELSE 0

Pending(i) == last.pre.collected[i].amount

ReservesCovered == \A i \in PoolIdx : Pending(i) + Inbound(i) <= last.queried[i]

\* C7 as stated: an invalid request fails with AssetMismatch in every reserve
\* and ledger state, and changes no ledger.
C7_InvalidRequestIsAssetMismatch ==
    (TradeRequest /\ PastEntryChecks /\ InvalidRequest) =>
        /\ last.result = "AssetMismatch"
        /\ LedgersUnchanged

\* C7: a swap, simulation or reverse simulation whose offer asset equals its
\* ask asset, or names an asset the pool does not hold, changes no ledger and
\* fails with AssetMismatch when every reserve covers its pending fee (and the
\* offer, in the execute path); when a reserve does not, the reserve adjustment
\* that precedes the role ladder fails first, with OverflowError.
C7_InvalidRequestFails ==
    (TradeRequest /\ PastEntryChecks /\ InvalidRequest) =>
        /\ last.result = IF ReservesCovered THEN "AssetMismatch" ELSE "OverflowError"
        /\ LedgersUnchanged

\* a self-swap refused with AssetMismatch by a pool that holds pending fees
C7_Witness ==
    /\ last.op = "swap"
    /\ PastEntryChecks
    /\ last.args.offer = last.args.ask
    /\ is_pool_asset(last.args.offer)
    /\ \E i \in PoolIdx : Pending(i) > 0
    /\ last.result = "AssetMismatch"

\* the swap computed its working reserves for an offer the pool holds
SwapPools == last.op = "swap" /\ last.pools # NoPools /\ is_pool_asset(last.args.offer)

\* the SwapComputation is the quote of the working reserves in their roles
QuotedFromPools ==
    LET q == compute_swap(last.pools[last.roles.offer].amount,
                          last.pools[last.roles.ask].amount,
                          last.pools[last.roles.unswapped].amount,
                          last.args.amount, last.pre.config.pool_fees,
                          last.pre.config.amp_factor)
    IN  q.ok /\ q.v = last.comp

\* C8 as stated: the offer reserve handed to the solver is reduced by the
\* offer amount only for a native offer, not for a token offer.
C8_OfferReducedOnlyWhenNative ==
    SwapPools =>
        last.pools[OfferIdx].amount
            = last.queried[OfferIdx] - Pending(OfferIdx)
                - (IF is_native_token(last.args.offer) THEN last.args.amount ELSE 0)

\* C8: in the execute swap path the offer reserve handed to the solver is the
\* queried balance minus the pending fee minus the offer amount, for a native
\* offer and for a token offer alike; a successful swap is quoted from it.
C8_OfferReducedForEveryKind ==
    /\ SwapPools =>
        last.pools[OfferIdx].amount
            = last.queried[OfferIdx] - Pending(OfferIdx) - last.args.amount
    /\ SwapOk => /\ last.roles.offer = OfferIdx
                 /\ QuotedFromPools

\* a successful swap of a token offer whose reserve was reduced by the offer
C8_Witness ==
    /\ SwapOk
    /\ ~is_native_token(last.args.offer)
    /\ last.args.amount > 0
    /\ last.pools[OfferIdx].amount = last.queried[OfferIdx] - Pending(OfferIdx) - last.args.amount

ReserveOps == {"swap", "query_simulation", "query_reverse_simulation",
               "provide_liquidity", "withdraw_liquidity"}

\* the result was computed from the working reserves
ComputedFromPools ==
    CASE last.op \in {"swap", "query_simulation"} -> QuotedFromPools
      [] last.op = "query_reverse_simulation" ->
            LET q == compute_offer_amount(last.pools[last.roles.offer].amount,
                                          last.pools[last.roles.ask].amount,
                                          last.pools[last.roles.unswapped].amount,
                                          last.args.amount, last.pre.config.pool_fees,
                                          last.pre.config.amp_factor)
            IN  q.ok /\ q.v.offer_amount = last.comp.return_amount
      [] last.op = "withdraw_liquidity" ->
            \A i \in PoolIdx :
                last.messages[i].amount
                    = mul_decimal(last.pools[i].amount,
                                  from_ratio(last.args.amount, last.pre.total_share))
      [] last.op = "provide_liquidity" ->
            last.pre.total_share # 0 =>
                LET d_0 == compute_d([i \in PoolIdx |-> last.pools[i].amount],
                                     last.pre.config.amp_factor)
                    d_1 == compute_d([i \in PoolIdx |->
                                        last.pools[i].amount + last.args.deposits[i]],
                                     last.pre.config.amp_factor)
                IN  /\ d_0.ok /\ d_1.ok
                    /\ last.messages[Len(last.messages)].amount
                         = (last.pre.total_share * (d_1.v - d_0.v)) \div d_0.v

\* C9: in swap, query_simulation, query_reverse_simulation, provide_liquidity
\* and withdraw_liquidity each of the three working reserves is the queried
\* balance minus that asset's pending protocol fee (minus the offer or the
\* native deposit where one arrived), and the quote, the refund and the minted
\* share of a successful call are computed from these reserves.
C9_ReservesNetOfPendingFee ==
    (last.op \in ReserveOps /\ last.pools # NoPools) =>
        /\ \A i \in PoolIdx :
            /\ last.pools[i].info = AssetInfos[i]
            /\ last.pools[i].amount = last.queried[i] - Pending(i) - Inbound(i)
        /\ last.result = "Ok" => ComputedFromPools

\* a withdrawal refunded from reserves that a pending fee had reduced
C9_Witness ==
    /\ last.op = "withdraw_liquidity"
    /\ last.result = "Ok"
    /\ \E i \in PoolIdx :
        /\ Pending(i) > 0
        /\ last.pools[i].amount = last.queried[i] - Pending(i)
        /\ last.messages[i].amount < last.queried[i] - Pending(i)

SubtractingOps == ReserveOps \cup {"query_pool"}

\* C10: when the pending fee of an asset exceeds that asset's reserve, every
\* operation that subtracts the pending fee from the reserve ends in
\* OverflowError and in no other kind of abort.
C10_UnderflowIsOverflowError ==
    (/\ last.op \in SubtractingOps
     /\ PastEntryChecks
     /\ \E i \in PoolIdx : Pending(i) > last.pre.balance[i])
        => last.result = "OverflowError"


----------------------------------------------------------------------------
(* Atomicity *)

ExecuteOps == {"swap", "provide_liquidity", "withdraw_liquidity",
               "collect_protocol_fees", "update_config"}

Failed == last.op \in ExecuteOps /\ last.result # "Ok"

LedgerWrites == {"store_fee:ALL_TIME_BURNED_FEES", "store_fee:COLLECTED_PROTOCOL_FEES",
                 "store_fee:ALL_TIME_COLLECTED_PROTOCOL_FEES"}

\* what the handler itself had written when it returned
HandlerWroteNothing ==
    /\ last.left.collected = last.pre.collected
    /\ last.left.all_time = last.pre.all_time
    /\ last.left.burned = last.pre.burned

\* C12: within swap a ledger write is followed by no fallible step other than
\* ledger writes (the solver call, the max-spread assertion and the
\* construction of the return and burn messages all precede the first write),
\* and a swap that returns an error has written no ledger.
C12_WritesAfterFallibleSteps ==
    last.op = "swap" =>
        /\ \A j, k \in DOMAIN last.trace :
            (j < k /\ last.trace[j] \in LedgerWrites) => last.trace[k] \in LedgerWrites
        /\ last.result # "Ok" => HandlerWroteNothing


----------------------------------------------------------------------------
(* Liquidity *)

IsMint(m) == m.kind = "Cw20Mint"
Mints == SelectSeq(last.messages, IsMint)
Receiver == IF last.args.to # None THEN last.args.to ELSE last.args.caller
MinLocked == 3 * MINIMUM_LIQUIDITY_AMOUNT

\* a provision that got as far as the share computation
Provision == last.op = "provide_liquidity" /\ PastEntryChecks /\ ReservesCovered
FirstD == compute_d(last.args.deposits, last.pre.config.amp_factor)

ReservesBefore == [i \in PoolIdx |-> last.pre.balance[i] - Pending(i)]
ReservesAfter == [i \in PoolIdx |-> ReservesBefore[i] + last.args.deposits[i]]
D_before == compute_d(ReservesBefore, last.pre.config.amp_factor)
D_after == compute_d(ReservesAfter, last.pre.config.amp_factor)

\* C14: a successful provision into a pool with total_share > 0 mints
\* total_share * (D_after - D_before) / D_before, D_before being computed from
\* the balances before the deposit minus the pending protocol fees and D_after
\* from these plus the deposits, in exactly one mint instruction, to the
\* receiver (the sender by default); no minimum liquidity is minted.
C14_LaterProvisionMintsProRata ==
    (Provision /\ last.pre.total_share > 0 /\ last.result = "Ok") =>
        /\ D_before.ok /\ D_after.ok
        /\ Mints = <<mint_lp_token_msg(Receiver,
                        (last.pre.total_share * (D_after.v - D_before.v)) \div D_before.v)>>
        /\ total_share = last.pre.total_share + Mints[1].amount

\* a later provision, into a pool that holds a pending fee, that mints shares
C14_Witness ==
    /\ Provision
    /\ last.pre.total_share > 0
    /\ last.result = "Ok"
    /\ \E i \in PoolIdx : Pending(i) > 0
    /\ Len(Mints) = 1
    /\ Mints[1].amount > 0
    /\ Mints[1].to = Sender


\* a provision that the entry layer let through: deposits are enabled and the
\* funds sent are the native deposit
ProvisionEntered ==
    /\ last.op = "provide_liquidity"
    /\ last.pre.config.feature_toggle.deposits_enabled
    /\ last.args.funds = last.args.deposits[1]

\* C15: a provision in which any of the three declared deposits is zero fails
\* with InvalidZeroAmount; it produces no transfer and no mint and changes no
\* ledger, balance or share supply.
C15_ZeroDepositRejected ==
    (ProvisionEntered /\ \E i \in PoolIdx : last.args.deposits[i] = 0) =>
        /\ last.result = "InvalidZeroAmount"
        /\ last.messages = <<>>
        /\ LedgersUnchanged
        /\ balance = last.pre.balance
        /\ total_share = last.pre.total_share

\* a provision with one zero token deposit among nonzero ones, rejected by a
\* pool whose pending fee exceeds its reserve
C15_Witness ==
    /\ ProvisionEntered
    /\ last.args.deposits[1] > 0
    /\ last.args.deposits[2] = 0
    /\ last.args.deposits[3] > 0
    /\ \E i \in PoolIdx : Pending(i) > last.pre.balance[i]
    /\ last.result = "InvalidZeroAmount"


Withdrawal == last.op = "withdraw_liquidity" /\ PastEntryChecks
Refundable(i) == last.queried[i] - Pending(i)

\* the share ratio as the handler holds it: burn_amount / total_share rounded
\* down to the precision of a Decimal
ShareRatio == (last.args.amount * DECIMAL_FRACTIONAL) \div last.pre.total_share

RefundMessages(refund) ==
    <<into_msg([info |-> AssetInfos[1], amount |-> refund[1]], Sender),
      into_msg([info |-> AssetInfos[2], amount |-> refund[2]], Sender),
      into_msg([info |-> AssetInfos[3], amount |-> refund[3]], Sender),
      burn_lp_msg(last.args.amount)>>

WithdrawalOutcome(refund) ==
    IF ReservesCovered
    THEN /\ last.result = "Ok"
         /\ last.messages = RefundMessages(refund)
         /\ LedgersUnchanged
         /\ total_share = last.pre.total_share - last.args.amount
    ELSE /\ last.result = "OverflowError"
         /\ last.messages = <<>>
         /\ LedgersUnchanged
         /\ balance = last.pre.balance
         /\ total_share = last.pre.total_share

\* C16 as stated: each refund is floor((balance - pending fee) * burn_amount
\* / total_share).
C16_RefundIsExactFloor ==
    Withdrawal =>
        WithdrawalOutcome([i \in PoolIdx |->
            (Refundable(i) * last.args.amount) \div last.pre.total_share])

\* C16: a withdrawal of burn_amount shares refunds, for each asset,
\* floor((balance - pending fee) * share_ratio), share_ratio being
\* burn_amount / total_share rounded down to Decimal precision; it emits one
\* transfer per asset to the sender, then one burn of exactly burn_amount of
\* the liquidity token, and changes no fee ledger.  When the pending fee of
\* any asset exceeds its balance the withdrawal fails with OverflowError, with
\* no refund and no burn.
C16_RefundIsShareRatioFloor ==
    Withdrawal =>
        WithdrawalOutcome([i \in PoolIdx |->
            (Refundable(i) * ShareRatio) \div DECIMAL_FRACTIONAL])

\* a withdrawal from a pool holding a pending fee whose refund the rounded
\* ratio makes smaller than the exact proportion
C16_Witness ==
    /\ Withdrawal
    /\ last.result = "Ok"
    /\ Len(last.messages) = 4
    /\ \E i \in PoolIdx :
        /\ Pending(i) > 0
        /\ last.messages[i].amount
             < (Refundable(i) * last.args.amount) \div last.pre.total_share


----------------------------------------------------------------------------
(* Solver failures *)

PoolAmounts == [i \in PoolIdx |-> last.pools[i].amount]
RolesOfRequest == resolve_roles(last.pools, last.args.offer, last.args.ask)

\* the invocation reached the solver and the solver returned no value
SolverFailed ==
    CASE last.op = "provide_liquidity" ->
            /\ Provision
            /\ IF last.pre.total_share = 0 THEN ~FirstD.ok
               ELSE ~compute_mint_amount_for_deposit(last.args.deposits, PoolAmounts,
                                                      last.pre.total_share).ok
      [] last.op \in {"swap", "query_simulation"} ->
            /\ last.pools # NoPools
            /\ RolesOfRequest.ok
            /\ ~swap_to(last.pools[RolesOfRequest.v.offer].amount,
                        last.pools[RolesOfRequest.v.ask].amount,
                        last.pools[RolesOfRequest.v.unswapped].amount,
                        last.args.amount, last.pre.config.amp_factor).ok
      [] OTHER -> FALSE

\* C17: a solver failure during provide_liquidity, swap or a simulation ends
\* the invocation in a typed error, ConvergenceFailure or OverflowError, and
\* never in a panic.
C17_SolverFailureIsTyped ==
    SolverFailed => last.result \in {"ConvergenceFailure", "OverflowError"}


----------------------------------------------------------------------------
(* Configuration *)

\* C18: in every reachable state the configured amplification factor is at
\* least 1; an update that would set it to 0 is rejected.
C18_AmpAtLeastOne ==
    /\ CONFIG.amp_factor >= 1
    /\ (last.op = "update_config" /\ last.args.msg.amp_factor = 0) => last.result # "Ok"

\* a share of one or more
ShareOutOfRange(f) ==
    \/ f.protocol_fee >= DECIMAL_FRACTIONAL
    \/ f.swap_fee >= DECIMAL_FRACTIONAL
    \/ f.burn_fee >= DECIMAL_FRACTIONAL

\* some gross output is smaller than the fees the shares take from it
ReturnGoesNegative(f) ==
    \E gross \in 1..DECIMAL_FRACTIONAL :
        Floor(gross, f.protocol_fee) + Floor(gross, f.swap_fee) + Floor(gross, f.burn_fee) > gross

\* an update_config of the owner that carries a PoolFee
FeeUpdate ==
    /\ last.op = "update_config"
    /\ last.args.caller = last.pre.config.owner
    /\ last.args.msg.pool_fees # NoPoolFee

\* C19: an update_config whose PoolFee has a share outside [0,1), or shares
\* that would make a return amount negative, ends in an error, and the stored
\* configuration is then the one before the call, whatever other fields the
\* same message supplied.
C19_InvalidPoolFeeRejected ==
    (FeeUpdate /\ (ShareOutOfRange(last.args.msg.pool_fees)
                        \/ ReturnGoesNegative(last.args.msg.pool_fees)))
        => /\ last.result # "Ok"
           /\ CONFIG = last.pre.config

\* the owner's update with shares each below one that together exceed one,
\* and a new owner in the same message, was rejected
C19_Witness ==
    /\ FeeUpdate
    /\ ~ShareOutOfRange(last.args.msg.pool_fees)
    /\ ReturnGoesNegative(last.args.msg.pool_fees)
    /\ last.args.msg.owner \notin {None, last.pre.config.owner}
    /\ last.result = "Std"
    /\ CONFIG.owner = last.pre.config.owner


----------------------------------------------------------------------------
(* Solver *)

Solved == last.op = "compute_d"
SolvedReserves == last.args.deposits
SolvedD == last.comp.return_amount
MaxReserve(xs) == CHOOSE m \in {xs[i] : i \in PoolIdx} : \A i \in PoolIdx : xs[i] <= m
MinReserve(xs) == CHOOSE m \in {xs[i] : i \in PoolIdx} : \A i \in PoolIdx : xs[i] >= m
PositiveInputs ==
    /\ \A i \in PoolIdx : SolvedReserves[i] > 0
    /\ last.args.msg.amp_factor >= 1

\* C20 as stated: for strictly positive reserves and amp >= 1, compute_d ends
\* within the iteration bound without error and returns D >= max(reserves).
C20_DAtLeastMaxReserve ==
    (Solved /\ PositiveInputs) =>
        /\ last.result = "Ok"
        /\ SolvedD >= MaxReserve(SolvedReserves)

\* C20: for strictly positive reserves and amp >= 1, compute_d ends within the
\* iteration bound, either with a D that lies between N times the smallest
\* reserve and the sum of the reserves, or, when the iterates settle in a
\* cycle wider than 1, with ConvergenceFailure.
C20_DBetweenMinAndSum ==
    (Solved /\ PositiveInputs) =>
        IF last.result = "Ok"
        THEN /\ SolvedD >= N_COINS * MinReserve(SolvedReserves)
             /\ SolvedD <= SolvedReserves[1] + SolvedReserves[2] + SolvedReserves[3]
        ELSE last.result = "ConvergenceFailure"

\* compute_d returned, at the initial amplification, a D below the largest of
\* three positive reserves
C20_Witness ==
    /\ Solved
    /\ PositiveInputs
    /\ last.args.msg.amp_factor = InitAmp
    /\ last.result = "Ok"
    /\ SolvedD < MaxReserve(SolvedReserves)
    /\ SolvedD > N_COINS * MinReserve(SolvedReserves)


----------------------------------------------------------------------------
(* Simulations *)

SimulationOk == last.op = "query_simulation" /\ last.result = "Ok"

\* the reverse simulation of what the forward simulation returned, for the
\* same pair, on the same balances and storage
Reverse ==
    query_reverse_simulation(balance,
        [info |-> last.args.ask, amount |-> last.comp.return_amount], last.args.offer)

Within3(a, b) == Abs(a - b) < 3

total_fee_share(pool_fees) ==
    pool_fees.protocol_fee + pool_fees.swap_fee + pool_fees.burn_fee

FeesWithin3 ==
    /\ Within3(Reverse.comp.swap_fee_amount, last.comp.swap_fee_amount)
    /\ Within3(Reverse.comp.protocol_fee_amount, last.comp.protocol_fee_amount)
    /\ Within3(Reverse.comp.burn_fee_amount, last.comp.burn_fee_amount)

FeeDrift(reverse, forward, share) ==
    /\ (reverse - forward - 1) * (DECIMAL_FRACTIONAL - total_fee_share(last.pre.config.pool_fees))
            < 3 * share
    /\ (forward - reverse) * DECIMAL_FRACTIONAL
            < last.comp.return_amount + 2 * DECIMAL_FRACTIONAL

BalanceWithoutOffer ==
    [last'.queried EXCEPT ![idx_of(last'.args.offer)] = @ - last'.args.amount]

\* query_simulation of the same request, before the swap, on those balances
SimulatedBefore ==
    query_simulation(BalanceWithoutOffer,
        [info |-> last'.args.offer, amount |-> last'.args.amount], last'.args.ask)

\* C22: a successful swap of x, executed when the balance of the offered asset
\* already includes x, returns the SwapComputation that query_simulation of x
\* returns on the balances without x under the same fee schedule,
\* amplification and pending ledger, for a native and for a token offer.
C22_ExecuteAgreesWithSimulation ==
    [][(last'.op = "swap" /\ last'.result = "Ok") =>
            /\ SimulatedBefore.result = "Ok"
            /\ SimulatedBefore.comp = last'.comp]_vars

\* a swap of a token offer, with a fee pending on the offered asset and every
\* amount of the computation nonzero
C22_Witness ==
    /\ SwapOk
    /\ ~is_native_token(last.args.offer)
    /\ last.queried[OfferIdx] = last.pre.balance[OfferIdx] + last.args.amount
    /\ last.pre.collected[OfferIdx].amount > 0
    /\ last.comp.return_amount > 0
    /\ last.comp.protocol_fee_amount > 0
    /\ last.comp.burn_fee_amount > 0


----------------------------------------------------------------------------
(* Instructions of a swap *)

IsReturnTransfer(m) ==
    /\ m.kind = (IF is_native_token(last.args.ask) THEN "BankSend" ELSE "Cw20Transfer")
    /\ m.info = last.args.ask
    /\ m.amount = last.comp.return_amount
    /\ m.to = (IF last.args.to # None THEN last.args.to ELSE Sender)

IsBurnOfFee(m) ==
    /\ m.kind = (IF is_native_token(last.args.ask) THEN "BankBurn" ELSE "Cw20Burn")
    /\ m.info = last.args.ask
    /\ m.amount = last.comp.burn_fee_amount

\* C23: the instructions of a successful swap are, in this order, the transfer
\* of return_amount of the ask asset to the receiver (the `to` address, else
\* the sender), present iff return_amount is nonzero, and the burn of
\* burn_fee_amount of the ask asset, present iff burn_fee_amount is nonzero;
\* there is no other instruction.
C23_SwapInstructionsOrdered ==
    SwapOk =>
        LET n_return == IF last.comp.return_amount # 0 THEN 1 ELSE 0
            n_burn == IF last.comp.burn_fee_amount # 0 THEN 1 ELSE 0
        IN  /\ Len(last.messages) = n_return + n_burn
            /\ n_return = 1 => IsReturnTransfer(last.messages[1])
            /\ n_burn = 1 => IsBurnOfFee(last.messages[n_return + 1])

\* a swap to a third party that pays a return and burns a fee: two
\* instructions, the transfer first
C23_Witness ==
    /\ SwapOk
    /\ last.args.to = "third_party"
    /\ Len(last.messages) = 2
    /\ last.messages[1].to = "third_party"
    /\ last.messages[1].amount # last.messages[2].amount


----------------------------------------------------------------------------
(* compute_swap *)

\* compute_swap was applied to reserves <<offer, ask, unswapped>> for which
\* the solver finds D and the new ask reserve
SwapComputed == last.op = "compute_swap"
SwapD == compute_d(last.args.deposits, last.args.msg.amp_factor)
NewAskReserve ==
    compute_new_reserve(last.args.deposits[1] + last.args.amount, last.args.deposits[3],
                        SwapD.v, last.args.msg.amp_factor)
SolverFound == SwapD.ok /\ NewAskReserve.ok
AskReserve == last.args.deposits[2]

----------------------------------------------------------------------------
(* Callers of the cw20 hooks *)

\* a cw20 contract delivered the Swap hook, or the WithdrawLiquidity hook
SwapHook == last.op = "swap" /\ last.args.caller = last.args.offer
WithdrawHook == last.op = "withdraw_liquidity"
TokenAssets == {AssetInfos[i] : i \in {j \in PoolIdx : ~is_native_token(AssetInfos[j])}}

\* no instruction was emitted and the contract is where it was
NothingDone ==
    /\ last.messages = <<>>
    /\ LedgersUnchanged
    /\ CONFIG = last.pre.config
    /\ balance = last.pre.balance
    /\ total_share = last.pre.total_share

\* C25: with swaps enabled, a Swap hook from a caller that is not a token
\* contract of the pool (the liquidity token included) fails with Unauthorized,
\* and a Swap hook from a token contract of the pool goes on to the swap; with
\* withdrawals enabled, a WithdrawLiquidity hook from a caller other than the
\* liquidity token fails with Unauthorized, and one from the liquidity token
\* goes on to the withdrawal. An unauthorized hook emits no instruction and
\* changes nothing.
C25_HooksAuthorizeCaller ==
    /\ (SwapHook /\ last.pre.config.feature_toggle.swaps_enabled) =>
            IF last.args.caller \in TokenAssets
            THEN last.result # "Unauthorized"
            ELSE last.result = "Unauthorized" /\ NothingDone
    /\ (WithdrawHook /\ last.pre.config.feature_toggle.withdrawals_enabled) =>
            IF last.args.caller = LiquidityToken
            THEN last.result # "Unauthorized"
            ELSE last.result = "Unauthorized" /\ NothingDone
    /\ (SwapHook \/ WithdrawHook) /\ last.result = "Ok" =>
            last.args.caller \in TokenAssets \cup {LiquidityToken}

\* the liquidity token delivers a Swap hook to a funded pool
C25_Witness ==
    /\ SwapHook
    /\ last.args.caller = LiquidityToken
    /\ last.pre.config.feature_toggle.swaps_enabled
    /\ last.pre.total_share > 0
    /\ last.result = "Unauthorized"

----------------------------------------------------------------------------
(* The swap fee stays in the pool *)

\* the reserve of asset i that belongs to the liquidity providers: the
\* contract's balance minus the pending protocol fee, before the last
\* invocation and after its instructions were executed
EffectiveBefore(i) == last.pre.balance[i] - last.pre.collected[i].amount
EffectiveNow(i) == balance[i] - COLLECTED_PROTOCOL_FEES[i].amount

\* C26: after a successful swap, once its transfer and burn instructions are
\* executed, the effective reserve of the ask asset has decreased by exactly
\* return_amount + protocol_fee_amount + burn_fee_amount, which is the gross
\* output minus swap_fee_amount.
C26_SwapFeeStaysInPool ==
    SwapOk =>
        /\ EffectiveBefore(AskIdx) - EffectiveNow(AskIdx)
                = last.comp.return_amount + last.comp.protocol_fee_amount
                    + last.comp.burn_fee_amount
        /\ EffectiveBefore(AskIdx) - EffectiveNow(AskIdx)
                = last.comp.gross - last.comp.swap_fee_amount

\* a swap that charged each of the three fees
C26_Witness ==
    /\ SwapOk
    /\ last.comp.swap_fee_amount > 0
    /\ last.comp.protocol_fee_amount > 0
    /\ last.comp.burn_fee_amount > 0
    /\ last.comp.return_amount > 0
    /\ EffectiveNow(AskIdx) < EffectiveBefore(AskIdx)

----------------------------------------------------------------------------
(* Role resolution *)

\* the ordered pairs (offer, ask) of distinct assets of the pool
ValidPairs == {p \in PoolIdx \X PoolIdx : p[1] # p[2]}
Remaining(o, a) == CHOOSE u \in PoolIdx : u # o /\ u # a

\* the ladder on the pools of the contract, for the pair (o, a)
LadderOn(o, a) == resolve_roles(query_pools(balance), AssetInfos[o], AssetInfos[a])
DecimalsOn(o, a) == swap_decimals(query_pools(balance), AssetInfos[o], AssetInfos[a])

\* C27: for each of the 6 ordered pairs (offer, ask) of distinct assets of the
\* pool the ladder succeeds and selects the offer pool and the ask pool at the
\* indices of those assets and the unswapped pool at the remaining index, and
\* swap takes offer_decimal and ask_decimal at those indices; a swap or a
\* simulation that succeeded worked on these roles, and a request for a valid
\* pair never ends in AssetMismatch.
C27_RolesFollowThePair ==
    /\ \A p \in ValidPairs :
            /\ LadderOn(p[1], p[2])
                    = Ok([ask |-> p[2], offer |-> p[1], unswapped |-> Remaining(p[1], p[2])])
            /\ DecimalsOn(p[1], p[2])
                    = [ask_decimal |-> asset_decimals[p[2]],
                       offer_decimal |-> asset_decimals[p[1]]]
    /\ (TradeRequest /\ last.result = "Ok") =>
            /\ ~InvalidRequest
            /\ last.roles.offer = OfferIdx
            /\ last.roles.ask = AskIdx
            /\ {last.roles.offer, last.roles.ask, last.roles.unswapped} = PoolIdx
            /\ last.op = "swap" =>
                    /\ last.roles.offer_decimal = asset_decimals[OfferIdx]
                    /\ last.roles.ask_decimal = asset_decimals[AskIdx]
    /\ (TradeRequest /\ ~InvalidRequest) => last.result # "AssetMismatch"

\* a swap of the third asset for the second: the first pool is left unswapped
C27_Witness ==
    /\ SwapOk
    /\ last.roles = [ask |-> 2, offer |-> 3, unswapped |-> 1,
                     ask_decimal |-> 8, offer_decimal |-> 10]

----------------------------------------------------------------------------
(* Feature toggles *)

\* the toggle of the operation of the last invocation, as it was stored
ToggleOf(op) ==
    CASE op = "swap" -> last.pre.config.feature_toggle.swaps_enabled
      [] op = "withdraw_liquidity" -> last.pre.config.feature_toggle.withdrawals_enabled
      [] op = "provide_liquidity" -> last.pre.config.feature_toggle.deposits_enabled
      [] OTHER -> TRUE

Toggled == {"swap", "withdraw_liquidity", "provide_liquidity"}

\* the handler returned before it queried the reserves or computed anything
ReturnedAtEntry ==
    /\ last.pools = NoPools
    /\ last.roles = NoRoles
    /\ last.comp = NoComputation
    /\ last.trace = <<>>

\* C28: with its toggle off, a cw20 Swap hook, a cw20 WithdrawLiquidity hook
\* and provide_liquidity fail with OperationDisabled whoever the caller is and
\* whatever the other two toggles are, before the reserves are queried or
\* anything is computed, with no instruction and nothing changed; with its
\* toggle on none of them fails with OperationDisabled.
C28_DisabledFeatureFailsFirst ==
    last.op \in Toggled =>
        IF ToggleOf(last.op)
        THEN last.result # "OperationDisabled"
        ELSE last.result = "OperationDisabled" /\ ReturnedAtEntry /\ NothingDone

\* a Swap hook from the liquidity token, which is not authorized, while swaps
\* are the only feature switched off
C28_Witness ==
    /\ SwapHook
    /\ last.args.caller = LiquidityToken
    /\ last.pre.config.feature_toggle = SwapsOff
    /\ last.result = "OperationDisabled"

----------------------------------------------------------------------------
(* Conservation of the protocol-fee ledgers *)

\* what the all-time ledger holds of asset i beyond the pending ledger
Settled(i) == ALL_TIME_COLLECTED_PROTOCOL_FEES[i].amount - COLLECTED_PROTOCOL_FEES[i].amount

CollectOk == last.op = "collect_protocol_fees" /\ last.result = "Ok"

\* the amount of asset i that the invocation of this step sends to the fee
\* collector: the transfers of a collection, all addressed to the collector
SentToCollector(i) ==
    IF last'.op = "collect_protocol_fees" /\ last'.result = "Ok"
    THEN outflow(last'.messages, i, 1)
    ELSE 0

CollectionGoesToCollector ==
    (last'.op = "collect_protocol_fees" /\ last'.result = "Ok") =>
        \A k \in 1..Len(last'.messages) :
            /\ last'.messages[k].kind \in {"BankSend", "Cw20Transfer"}
            /\ last'.messages[k].to = CONFIG.fee_collector_addr

\* C29: for every asset, all-time protocol fees = pending protocol fees + the
\* sum of the amounts of that asset sent to the fee collector so far: the two
\* are equal after instantiation, when nothing was sent, every step adds to
\* all-time minus pending exactly what it sends to the collector, and so
\* pending never exceeds all-time.
C29_LedgerConservation ==
    /\ \A i \in PoolIdx : Settled(i) = 0
    /\ [][/\ CollectionGoesToCollector
          /\ \A i \in PoolIdx : Settled(i)' = Settled(i) + SentToCollector(i)]_vars
    /\ [](\A i \in PoolIdx : Settled(i) >= 0)

\* a collection has sent the protocol fee of a swap to the collector: the
\* all-time ledger keeps it, the pending ledger is empty
C29_Witness ==
    /\ CollectOk
    /\ \E i \in PoolIdx :
        /\ outflow(last.messages, i, 1) > 0
        /\ Settled(i) = outflow(last.messages, i, 1)
        /\ COLLECTED_PROTOCOL_FEES[i].amount = 0
        /\ last.pre.collected[i].amount = ALL_TIME_COLLECTED_PROTOCOL_FEES[i].amount

----------------------------------------------------------------------------
(* Backing of the pending protocol fees *)

\* C30: in every state reached from the instantiated pool, with the transfers
\* and burns of each successful call applied to the balances, the pending
\* protocol fee of each asset is at most the contract's balance of that asset,
\* and a collection leaves balance - pending fee of every asset as it was.
C30_PendingFeesAreBacked ==
    /\ \A i \in PoolIdx : COLLECTED_PROTOCOL_FEES[i].amount <= balance[i]
    /\ CollectOk => \A i \in PoolIdx : EffectiveNow(i) = EffectiveBefore(i)

\* a collection paid a pending fee out of a pool that liquidity providers
\* still hold a reserve in
C30_Witness ==
    /\ CollectOk
    /\ \E i \in PoolIdx :
        /\ last.pre.collected[i].amount > 0
        /\ balance[i] = last.pre.balance[i] - last.pre.collected[i].amount
        /\ EffectiveNow(i) > 0
        /\ EffectiveNow(i) = EffectiveBefore(i)

====
